---------------------------- MODULE Spec2Model ----------------------------
(***************************************************************************)
(* PgCompute (src/compute/pg_compute.js) and its Deployment ledger         *)
(* (src/compute/deployment.js) as a state machine.                         *)
(*                                                                         *)
(* A call of PgCompute.init or PgCompute.run is a task.  Every await on a  *)
(* data-store round trip is a step boundary: one action executes the       *)
(* statement at the head of its connection's queue and runs the caller's   *)
(* continuation up to the next statement it issues.  The data store is     *)
(* PostgreSQL as the code uses it: committed state, one transaction per    *)
(* connection, transactional DDL, a primary key on (name, args).           *)
(***************************************************************************)
EXTENDS Integers, Sequences, FiniteSets, TLC

VARIABLES
    mode,       \* engine -> DeploymentMode given to the constructor
    dbSchema,   \* engine -> schema name given to the constructor
    ledger,     \* engine -> [init, table]: PgCompute.#deployment / #deploymentTable
    db,         \* committed state of the data store
    conn,       \* connection -> [tx, ops]: transaction state of the session
    poolOut,    \* pooled connections currently checked out
    queue,      \* connection -> tasks whose statement waits on it, in issue order
    faults,     \* statements rejected so far for reasons outside the model
    calls,      \* calls of init and run started so far
    stale,      \* engine -> names deployed by another engine since its ledger was loaded
    lastBody,   \* name -> body of the latest checkExists that returned (history)
    task        \* task -> the call in flight: position, arguments, locals, history

vars == <<mode, dbSchema, ledger, db, conn, poolOut, queue, faults, calls, stale,
         lastBody, task>>

---------------------------------------------------------------------------
(* Universe of the model.                                                  *)

Engines == {"e1", "e2"}
Tasks == {"t1", "t2"}
ClientConn == "c0"
PoolConns == {"p1", "p2"}
Conns == {ClientConn} \cup PoolConns
ClientKinds == {"Client", "Pool"}

\* DeploymentMode, deployment.js:3-20
DEV == "DEV"
AUTO == "AUTO"
MANUAL == "MANUAL"
Modes == {DEV, AUTO, MANUAL}

\* the schema unqualified names resolve to (search_path of a stock server)
DefaultSchema == "public"
Schemas == {"public", "tracker"}

\* calls of init and run per behaviour
MaxCalls == 6

\* calls of init and run per behaviour when runs overlap
MaxConcCalls == 4

\* calls of init and run per behaviour when arguments of every kind are passed
MaxTypedCalls == 4

\* calls of init and run per behaviour on a store that holds a deployment
MaxStoredCalls == 3

\* statements per behaviour that fail for a reason outside the model
MaxFaults == 1

FuncNames == {"f"}

\* plv8Func.name of a function expression without a name
AnonymousName == ""

\* The keys #deploymentTable is looked up with
LedgerKeys == FuncNames \cup {AnonymousName}
Bodies == {"b1", "b2"}

\* A JavaScript argument value: typeof, Object.prototype.toString tag,
\* Number.isInteger, and the number itself, which is over * 2^32 + n with n
\* in the 32-bit range (a JavaScript number is wider than 32 bits).
WideV(over, n) ==
    [type |-> "number", tag |-> "[object Number]", isInt |-> TRUE, over |-> over, n |-> n]
IntV(n) == WideV(0, n)
StrV == [type |-> "string", tag |-> "[object String]", isInt |-> FALSE, over |-> 0, n |-> 0]

ArgValues == {IntV(1), StrV}

\* The other kinds of JavaScript values an argument can be: a non-integral
\* number, a boolean, a Date, a BigInt, the boxed primitives, and the kinds
\* the type mapping has no entry for.
FloatV ==
    [type |-> "number", tag |-> "[object Number]", isInt |-> FALSE, over |-> 0, n |-> 0]
BoolV ==
    [type |-> "boolean", tag |-> "[object Boolean]", isInt |-> FALSE, over |-> 0, n |-> 0]
DateV == [type |-> "object", tag |-> "[object Date]", isInt |-> FALSE, over |-> 0, n |-> 0]
BigIntV(n) ==
    [type |-> "bigint", tag |-> "[object BigInt]", isInt |-> FALSE, over |-> 0, n |-> n]
ObjectV(tag) == [type |-> "object", tag |-> tag, isInt |-> FALSE, over |-> 0, n |-> 0]
OtherV(type) == [type |-> type, tag |-> "", isInt |-> FALSE, over |-> 0, n |-> 0]

\* A function value: name, declared parameters, body text.
FuncDefs ==
    {[name |-> nm, params |-> ps, body |-> b] :
        nm \in FuncNames, ps \in {<<"a">>}, b \in Bodies}

\* The argument lists a call can carry (zero or one value).
ArgLists == {<<>>} \cup {<<v>> : v \in ArgValues}

---------------------------------------------------------------------------
(* Type Mapper.                                                            *)

\* PgCompute.#MIN_INT and #MAX_INT, written out
MIN_INT == -2147483647 - 1
MAX_INT == 2147483647

Undefined == "undefined"

\* PgCompute.#JS_TO_POSTGRES_TYPE_MAPPING
JS_TO_POSTGRES_TYPE_MAPPING(key) ==
    CASE key = "int" -> "int4"
      [] key = "long" -> "int8"
      [] key = "bigint" -> "bigint"
      [] key = "float" -> "float4"
      [] key = "boolean" -> "bool"
      [] key = "string" -> "text"
      [] key = "[object Boolean]" -> "bool"
      [] key = "[object Date]" -> "date"
      [] key = "[object String]" -> "text"
      [] OTHER -> Undefined

\* arg < bound and arg > bound for a number and a bound of the 32-bit range
Less(arg, bound) == arg.over < 0 \/ (arg.over = 0 /\ arg.n < bound)
Greater(arg, bound) == arg.over > 0 \/ (arg.over = 0 /\ arg.n > bound)

\* Mutant: the bounds of the 32-bit range themselves count as long.
getPostgresType_BoundsExcluded(arg) ==
    IF arg.type = "number"
    THEN IF arg.isInt
         THEN JS_TO_POSTGRES_TYPE_MAPPING(
                  IF ~Greater(arg, MIN_INT) \/ ~Less(arg, MAX_INT) THEN "long" ELSE "int")
         ELSE JS_TO_POSTGRES_TYPE_MAPPING("float")
    ELSE IF arg.type = "object"
         THEN JS_TO_POSTGRES_TYPE_MAPPING(arg.tag)
         ELSE JS_TO_POSTGRES_TYPE_MAPPING(arg.type)

\* PgCompute.#getPostgresType; Undefined stands for the thrown
\* "Unsupported argument type" error.
getPostgresType(arg) ==
    IF arg.type = "number"
    THEN IF arg.isInt
         THEN JS_TO_POSTGRES_TYPE_MAPPING(
                  IF Less(arg, MIN_INT) \/ Greater(arg, MAX_INT) THEN "long" ELSE "int")
         ELSE JS_TO_POSTGRES_TYPE_MAPPING("float")
    ELSE IF arg.type = "object"
         THEN JS_TO_POSTGRES_TYPE_MAPPING(arg.tag)
         ELSE JS_TO_POSTGRES_TYPE_MAPPING(arg.type)

\* An argument signature is the text "a int4, b text": modelled as the
\* sequence of its (name, type) items.  The JavaScript null handed over for
\* a function without parameters is a value of its own.
SigItem(n, t) == [n |-> n, t |-> t]
EmptySig == <<>>
NullSig == <<SigItem("null", "null")>>

\* PgCompute.#checkFunctionWithArgsExists, the signature text it builds
BuildArgsStr(argsNames, argsValues) ==
    [i \in 1..Len(argsValues) |->
        SigItem(IF i <= Len(argsNames) THEN argsNames[i] ELSE Undefined,
                getPostgresType(argsValues[i]))]

\* crypto.createHash('md5').update(funcBody).digest("hex")
Md5(funcBody) == <<"md5", funcBody>>

---------------------------------------------------------------------------
(* The data store: PostgreSQL as the engine uses it.                       *)

\* One write of a transaction.  All writes share one record shape.
Op(op, sch, nm, sig, body, hash) ==
    [op |-> op, schema |-> sch, name |-> nm, sig |-> sig, body |-> body, hash |-> hash]

\* A fresh data store: the public schema of a stock server, nothing else.
EmptyStore == [schemas |-> {DefaultSchema}, tables |-> {}, routines |-> {}, meta |-> {}]

\* PostgreSQL's name of a declared type: bigint is an alias of int8.
TypeName(pgType) == IF pgType = "bigint" THEN "int8" ELSE pgType

\* The parameter types of a signature: what identifies an overload.
SigTypes(sig) == [i \in 1..Len(sig) |-> TypeName(sig[i].t)]

\* Mutant: create or replace drops every routine of the name, whatever its
\* parameter types.
ApplyOp_ReplacesByName(o, d) ==
    CASE o.op = "mkSchema" -> [d EXCEPT !.schemas = @ \cup {o.schema}]
      [] o.op = "mkTable" -> [d EXCEPT !.tables = @ \cup {o.schema}]
      [] o.op = "putRoutine" ->
            [d EXCEPT !.routines =
                {r \in @ : ~(r.schema = o.schema /\ r.name = o.name)}
                \cup {[schema |-> o.schema, name |-> o.name, sig |-> o.sig, body |-> o.body]}]
      [] o.op = "delMeta" ->
            [d EXCEPT !.meta =
                {m \in @ : ~(m.schema = o.schema /\ m.name = o.name /\ m.args = o.sig)}]
      [] o.op = "insMeta" ->
            [d EXCEPT !.meta =
                @ \cup {[schema |-> o.schema, name |-> o.name, args |-> o.sig,
                         body_hashcode |-> o.hash]}]
      [] OTHER -> d

ApplyOp(o, d) ==
    CASE o.op = "mkSchema" -> [d EXCEPT !.schemas = @ \cup {o.schema}]
      [] o.op = "mkTable" -> [d EXCEPT !.tables = @ \cup {o.schema}]
      [] o.op = "putRoutine" ->
            [d EXCEPT !.routines =
                {r \in @ : ~(r.schema = o.schema /\ r.name = o.name
                             /\ SigTypes(r.sig) = SigTypes(o.sig))}
                \cup {[schema |-> o.schema, name |-> o.name, sig |-> o.sig, body |-> o.body]}]
      [] o.op = "delMeta" ->
            [d EXCEPT !.meta =
                {m \in @ : ~(m.schema = o.schema /\ m.name = o.name /\ m.args = o.sig)}]
      [] o.op = "insMeta" ->
            [d EXCEPT !.meta =
                @ \cup {[schema |-> o.schema, name |-> o.name, args |-> o.sig,
                         body_hashcode |-> o.hash]}]
      [] OTHER -> d

\* The writes of a transaction applied in order to state d.
ApplyOps(ops, d) ==
    LET after[i \in 0..Len(ops)] == IF i = 0 THEN d ELSE ApplyOp(ops[i], after[i - 1])
    IN  after[Len(ops)]

\* What a session sees: the committed state and its own uncommitted writes.
View(c) == IF conn[c].tx = "open" THEN ApplyOps(conn[c].ops, db) ELSE db

\* A statement the engine issues.  args: the argument values of an invocation.
Stmt(kind, sch, nm, sig, body, hash, args) ==
    [kind |-> kind, schema |-> sch, name |-> nm, sig |-> sig, body |-> body,
     hash |-> hash, args |-> args]

SimpleStmt(kind, sch) == Stmt(kind, sch, "", EmptySig, "", <<>>, <<>>)

\* The type PostgreSQL gives the literal that #prepareExecStmtWithArgs
\* renders: text is single-quoted (an untyped literal), everything else is
\* concatenated as is.
LiteralOf(pgType) ==
    CASE pgType = "text" -> "unknown"
      [] pgType = "int4" -> "int4"
      [] pgType = "int8" -> "int8"
      [] pgType = "float4" -> "numeric"
      [] pgType = "bool" -> "bool"
      [] OTHER -> "syntaxerror"

\* An integer is rendered as its digits, which PostgreSQL reads as int4 or,
\* out of that range, int8; so is a BigInt.
LiteralType(arg) ==
    IF arg.type = "bigint"
    THEN IF Less(arg, MIN_INT) \/ Greater(arg, MAX_INT) THEN "int8" ELSE "int4"
    ELSE LiteralOf(getPostgresType(arg))

\* Can a literal of type lt be passed to a parameter of type pt?
Accepts(lt, pt) ==
    \/ lt = "unknown"
    \/ lt = pt
    \/ lt = "int4" /\ pt \in {"int8", "float4", "numeric"}
    \/ lt = "int8" /\ pt \in {"float4", "numeric"}
    \/ lt = "numeric" /\ pt = "float4"

\* Function resolution of "select <schema>.<name>(<literals>)".
Candidates(v, s) ==
    {r \in v.routines :
        /\ r.schema = s.schema /\ r.name = s.name
        /\ Len(r.sig) = Len(s.args)
        /\ \A i \in 1..Len(s.args) : Accepts(LiteralType(s.args[i]), TypeName(r.sig[i].t))}

MatchScore(r, s) ==
    Cardinality({i \in 1..Len(s.args) :
        \/ LiteralType(s.args[i]) = TypeName(r.sig[i].t)
        \/ LiteralType(s.args[i]) = "unknown" /\ r.sig[i].t = "text"})

\* Of the candidates, those with the most exact matches.
BestOf(cands, s) ==
    {r \in cands : \A q \in cands : MatchScore(q, s) <= MatchScore(r, s)}

BestCandidates(v, s) == BestOf(Candidates(v, s), s)

\* The text of a string argument is not a valid number, boolean or date.
InputSyntaxError(r, s) ==
    \E i \in 1..Len(s.args) :
        LiteralType(s.args[i]) = "unknown" /\ r.sig[i].t # "text"

\* The error of an invocation that resolves to the routines best.
ResolutionError(best, s) ==
    IF best = {} THEN "does not exist"
    ELSE IF Cardinality(best) > 1 THEN "is not unique"
    ELSE IF InputSyntaxError(CHOOSE r \in best : TRUE, s)
         THEN "invalid input syntax"
         ELSE ""

InvokeError(v, s) ==
    IF \E i \in 1..Len(s.args) : LiteralType(s.args[i]) = "syntaxerror"
    THEN "syntax error"
    ELSE ResolutionError(BestCandidates(v, s), s)

\* The body that an accepted invocation executes.
InvokedBody(v, s) == (CHOOSE r \in BestCandidates(v, s) : TRUE).body

\* Mutant: the metadata table has no primary key.
DuplicateKey_None(v, s) == FALSE

\* PRIMARY KEY(name, args): view v holds a row with the key of the INSERT s.
DuplicateKey(v, s) ==
    \E m \in v.meta : m.schema = s.schema /\ m.name = s.name /\ m.args = s.sig

\* The error, if any, the data store raises for statement s against view v.
StmtError(v, s) ==
    CASE s.kind = "CREATE_TABLE" ->
            IF s.schema \in v.schemas THEN "" ELSE "schema does not exist"
      [] s.kind \in {"SELECT_META", "DELETE_META"} ->
            IF s.schema \in v.tables THEN "" ELSE "relation does not exist"
      [] s.kind = "INSERT_META" ->
            IF s.schema \notin v.tables THEN "relation does not exist"
            ELSE IF s.sig = NullSig THEN "null value in column"
            ELSE IF DuplicateKey(v, s) THEN "duplicate key value"
            ELSE ""
      [] s.kind = "CREATE_FUNCTION" ->
            IF s.name = AnonymousName \/ s.sig = NullSig THEN "syntax error"
            ELSE IF \E r \in v.routines :
                        /\ r.schema = s.schema /\ r.name = s.name
                        /\ SigTypes(r.sig) = SigTypes(s.sig) /\ r.sig # s.sig
                 THEN "cannot change name of input parameter"
                 ELSE ""
      [] s.kind = "CREATE_PLAIN" ->
            IF \E r \in v.routines :
                  /\ r.schema = s.schema /\ r.name = s.name
                  /\ SigTypes(r.sig) = SigTypes(s.sig)
            THEN "already exists with same argument types"
            ELSE ""
      [] s.kind = "INVOKE" -> InvokeError(v, s)
      [] OTHER -> ""

\* The writes statement s makes against view v.
StmtOps(v, s) ==
    CASE s.kind = "CREATE_SCHEMA" ->
            IF s.schema \in v.schemas THEN <<>>
            ELSE <<Op("mkSchema", s.schema, "", EmptySig, "", <<>>)>>
      [] s.kind = "CREATE_TABLE" ->
            IF s.schema \in v.tables THEN <<>>
            ELSE <<Op("mkTable", s.schema, "", EmptySig, "", <<>>)>>
      [] s.kind \in {"CREATE_FUNCTION", "CREATE_PLAIN"} ->
            <<Op("putRoutine", s.schema, s.name, s.sig, s.body, <<>>)>>
      [] s.kind = "DELETE_META" ->
            IF \E m \in v.meta : m.schema = s.schema /\ m.name = s.name /\ m.args = s.sig
            THEN <<Op("delMeta", s.schema, s.name, s.sig, "", <<>>)>>
            ELSE <<>>
      [] s.kind = "INSERT_META" ->
            <<Op("insMeta", s.schema, s.name, s.sig, "", s.hash)>>
      [] OTHER -> <<>>

\* Two writes touch the same catalog row or the same metadata row.
SameRow(o, p) ==
    /\ o.schema = p.schema
    /\ \/ o.op = "mkSchema" /\ p.op = "mkSchema"
       \/ o.op = "mkTable" /\ p.op = "mkTable"
       \/ /\ o.op = "putRoutine" /\ p.op = "putRoutine"
          /\ o.name = p.name /\ SigTypes(o.sig) = SigTypes(p.sig)
       \/ /\ o.op \in {"delMeta", "insMeta"} /\ p.op \in {"delMeta", "insMeta"}
          /\ o.name = p.name /\ o.sig = p.sig

\* A statement waits while another session's unfinished transaction holds
\* a row it writes.
Conflicts(c, ops) ==
    \E c2 \in Conns \ {c} :
        /\ conn[c2].tx = "open"
        /\ \E i \in 1..Len(conn[c2].ops) :
              \E j \in 1..Len(ops) : SameRow(conn[c2].ops[i], ops[j])

Blocked(c, s) == conn[c].tx # "aborted" /\ Conflicts(c, StmtOps(View(c), s))

\* The outcome of statement s on connection c.  fault: the statement is
\* rejected for a reason outside the model (invalid body, timeout).
\* An error inside a transaction block aborts the transaction at once: its
\* writes are undone and its locks released, and the session rejects every
\* statement until the block is ended.
\* Mutant: the statements of #createFunction run outside a transaction block.
BeginTx_Autocommit(tx) == tx

\* The session state after a successful BEGIN
BeginTx(tx) == "open"

Outcome(c, s, err) ==
    LET tx == conn[c].tx
    IN  IF tx = "aborted"
        THEN IF s.kind = "COMMIT"
             THEN [ok |-> TRUE, err |-> "", tx |-> "idle", ops |-> <<>>, db |-> db]
             ELSE [ok |-> FALSE, err |-> "current transaction is aborted",
                   tx |-> tx, ops |-> <<>>, db |-> db]
        ELSE IF err # ""
        THEN IF s.kind = "COMMIT" \/ tx = "idle"
             THEN [ok |-> FALSE, err |-> err, tx |-> "idle", ops |-> <<>>, db |-> db]
             ELSE [ok |-> FALSE, err |-> err, tx |-> "aborted", ops |-> <<>>, db |-> db]
        ELSE CASE s.kind = "BEGIN" ->
                    [ok |-> TRUE, err |-> "", tx |-> BeginTx(tx), ops |-> conn[c].ops,
                     db |-> db]
               [] s.kind = "COMMIT" ->
                    [ok |-> TRUE, err |-> "", tx |-> "idle", ops |-> <<>>,
                     db |-> ApplyOps(conn[c].ops, db)]
               [] OTHER ->
                    IF tx = "open"
                    THEN [ok |-> TRUE, err |-> "", tx |-> tx,
                          ops |-> conn[c].ops \o StmtOps(View(c), s), db |-> db]
                    ELSE [ok |-> TRUE, err |-> "", tx |-> tx, ops |-> <<>>,
                          db |-> ApplyOps(StmtOps(db, s), db)]

Execute(c, s, fault) ==
    Outcome(c, s, IF fault THEN "statement failed" ELSE StmtError(View(c), s))

---------------------------------------------------------------------------
(* The Deployment ledger and the decisions of checkExists.                 *)

\* An entry of Deployment.#deploymentTable; present = FALSE: no entry.
Rec(args, hash, checked) ==
    [present |-> TRUE, args |-> args, bodyHashCode |-> hash, checked |-> checked]
NoRec == [present |-> FALSE, args |-> EmptySig, bodyHashCode |-> <<>>, checked |-> FALSE]

\* #deploymentTable = {} of a new Deployment
EmptyTable == [n \in LedgerKeys |-> NoRec]

\* dbClient.escapeIdentifier: a quoted identifier names exactly its text
escapeIdentifier(s) == s

\* Mutant: only too few arguments are rejected.
ArgumentsMismatch_TooFew(fn, args) == Len(args) < Len(fn.params)

\* PgCompute.run, the argument count test
ArgumentsMismatch(fn, args) == Len(args) # Len(fn.params)

\* PgCompute.run: the signature handed to checkExists, null for a function
\* without parameters
RunFuncArgs(fn, args) ==
    IF Len(fn.params) > 0 THEN BuildArgsStr(fn.params, args) ELSE NullSig

\* Mutant: no argument is refused.
UnsupportedArgument_Never(fn, args) == FALSE

\* Does #checkFunctionWithArgsExists throw "Unsupported argument type"?
UnsupportedArgument(fn, args) ==
    /\ Len(fn.params) > 0
    /\ \E i \in 1..Len(args) : getPostgresType(args[i]) = Undefined

\* #getPostgresType: the type its error message names, typeof or, for an
\* object, the Object.prototype.toString tag
ObservedKind(arg) == IF arg.type = "object" THEN arg.tag ELSE arg.type

\* The kind named by the error of #checkFunctionWithArgsExists: that of the
\* first argument without a mapping.
UnsupportedKind(fn, args) ==
    ObservedKind(args[CHOOSE i \in 1..Len(args) :
                        /\ getPostgresType(args[i]) = Undefined
                        /\ \A j \in 1..(i - 1) : getPostgresType(args[j]) # Undefined])

\* Mutant: the session short-circuit is never taken.
SkipCheck_Never(funcRecord) == FALSE

\* checkExists: the session short-circuit
SkipCheck(funcRecord) == funcRecord.present /\ funcRecord.checked

\* Mutant: the signature is passed on as it was given.
NormalizeArgs_Identity(funcArgs) == funcArgs

\* checkExists: funcArgs = "" when it is undefined or null
NormalizeArgs(funcArgs) == IF funcArgs = NullSig THEN EmptySig ELSE funcArgs

\* Mutant: only the fingerprint is compared, not the signature.
NeedsRedeploy_HashOnly(funcRecord, funcArgs, bodyHashCode) ==
    funcRecord.bodyHashCode # bodyHashCode

\* Mutant: every unverified record is redeployed, as the DEV mode is documented to do.
NeedsRedeploy_Always(funcRecord, funcArgs, bodyHashCode) == TRUE

\* checkExists: the redeploy test
NeedsRedeploy(funcRecord, funcArgs, bodyHashCode) ==
    funcRecord.args # funcArgs \/ funcRecord.bodyHashCode # bodyHashCode

\* Mutant: the MANUAL mode deploys like the other modes.
ManualRefuses_Never(m) == FALSE

\* checkExists: the mode test in front of both calls of #createFunction
ManualRefuses(m) == m = MANUAL

\* checkExists up to its first await: what it does for this input.
\*   skip: already verified;  exists: matches, mark verified;
\*   deploy / redeploy: #createFunction;  throw: MANUAL refuses.
CheckDecision(m, funcRecord, funcArgs, funcBody) ==
    IF SkipCheck(funcRecord) THEN "skip"
    ELSE IF ~funcRecord.present
         THEN IF ManualRefuses(m) THEN "throw" ELSE "deploy"
    ELSE IF NeedsRedeploy(funcRecord, NormalizeArgs(funcArgs), Md5(funcBody))
         THEN IF ManualRefuses(m) THEN "throw" ELSE "redeploy"
         ELSE "exists"

\* Mutant: #createFunction is never told that it redeploys.
RedeployFlag_Never(decision) == FALSE

\* checkExists: the redeploy argument it passes to #createFunction
RedeployFlag(decision) == decision = "redeploy"

\* Mutant: the DDL is always generated without parameters.
CreateStmtSig_Empty(funcArgs) == EmptySig

\* #createFunction: the parameter list of the generated DDL
CreateStmtSig(funcArgs) == IF funcArgs = NullSig THEN EmptySig ELSE funcArgs

\* Mutant: the connection is never given back.
ReleasesConnection_Never(client, connection) == FALSE

\* Mutant: whatever connection the call used is released.
ReleasesConnection_Always(client, connection) == connection # ""

\* #releaseConnection: does it call connection.release()?
ReleasesConnection(client, connection) == client = "Pool" /\ connection # ""

---------------------------------------------------------------------------
(* Tasks.                                                                  *)

NoFn == [name |-> "", params |-> <<>>, body |-> ""]
\* The outcome of a call: the body the invocation executed, or the error
\* message, detail being the value the message ends with.
NoOut == [status |-> "none", err |-> "", detail |-> "", body |-> ""]
OkOut(body) == [status |-> "ok", err |-> "", detail |-> "", body |-> body]
ErrOut(err) == [status |-> "error", err |-> err, detail |-> "", body |-> ""]
ErrOutWith(err, detail) == [status |-> "error", err |-> err, detail |-> detail, body |-> ""]

\* A task between calls.  The locals of run: fn, args, conn (connection),
\* funcArgs, redeploy, delArgs (the args value of the DELETE).  History kept
\* for the properties: failed (an earlier call of the task failed),
\* decision, entry (the record checkExists found), pre (the committed store
\* when checkExists was entered), prevBody (the body of the latest
\* checkExists of the name that returned), log (statements executed),
\* acquired and released (pool check-outs and releases of the call).
IdleTask(p, failed) ==
    [pc |-> p, failed |-> failed, kind |-> "none", eng |-> "", client |-> "",
     fn |-> NoFn, args |-> <<>>, conn |-> "", funcArgs |-> EmptySig,
     redeploy |-> FALSE, delArgs |-> EmptySig, decision |-> "", entry |-> NoRec,
     pre |-> EmptyStore, prevBody |-> "", log |-> <<>>, out |-> NoOut,
     acquired |-> 0, released |-> 0]

NewCall(kind, e, ck, fn, args, failed) ==
    [IdleTask("connect", failed) EXCEPT !.kind = kind, !.eng = e, !.client = ck,
                                !.fn = fn, !.args = args]

\* The statement task t has issued and is waiting for.
Pending(t) ==
    LET k == task[t]
        tableSchema == escapeIdentifier(dbSchema[k.eng])
    IN  CASE k.pc = "schema" -> SimpleStmt("CREATE_SCHEMA", tableSchema)
          [] k.pc = "table" -> SimpleStmt("CREATE_TABLE", tableSchema)
          [] k.pc = "load" -> SimpleStmt("SELECT_META", tableSchema)
          [] k.pc = "begin" -> SimpleStmt("BEGIN", "")
          [] k.pc = "ddl" ->
                Stmt("CREATE_FUNCTION", DefaultSchema, k.fn.name,
                     CreateStmtSig(k.funcArgs), k.fn.body, <<>>, <<>>)
          [] k.pc = "delete" ->
                Stmt("DELETE_META", tableSchema, k.fn.name, k.delArgs, "", <<>>, <<>>)
          [] k.pc = "insert" ->
                Stmt("INSERT_META", tableSchema, k.fn.name, k.funcArgs, "",
                     Md5(k.fn.body), <<>>)
          [] k.pc = "commit" -> SimpleStmt("COMMIT", "")
          [] k.pc = "invoke" ->
                Stmt("INVOKE", dbSchema[k.eng], k.fn.name, EmptySig, "", <<>>, k.args)
          [] OTHER -> SimpleStmt("NONE", "")

LogEntry(kind, c, ok) == [kind |-> kind, conn |-> c, ok |-> ok]

\* May the data store reject the next statement for an outside reason?
Faults == IF faults < MaxFaults THEN BOOLEAN ELSE {FALSE}

\* Mutant: statements are sent through the client object handed to the
\* call; a pool then runs each on some other connection of its own.
QueryTarget_Client(client, connection) ==
    IF client = "Pool" THEN CHOOSE c \in PoolConns : c # connection ELSE connection

\* The connection on which run, init and the Deployment call query()
QueryTarget(client, connection) == connection

Target(k) == QueryTarget(k.client, k.conn)

\* Task t's statement is the next one its connection sends.
AtHead(t) ==
    /\ queue[Target(task[t])] # <<>>
    /\ Head(queue[Target(task[t])]) = t
    /\ ~Blocked(Target(task[t]), Pending(t))

\* The data store executes t's pending statement with outcome r.
Executed(t, r, fault) ==
    /\ db' = r.db
    /\ faults' = IF fault THEN faults + 1 ELSE faults
    /\ conn' = [conn EXCEPT ![Target(task[t])] = [tx |-> r.tx, ops |-> r.ops]]

Logged(t, r) ==
    [task[t] EXCEPT !.log = Append(@, LogEntry(Pending(t).kind, Target(task[t]), r.ok))]

Dequeue(q, t) == IF q # <<>> /\ Head(q) = t THEN Tail(q) ELSE q

\* The continuation issues its next statement on its connection.
\* po: the checked-out pooled connections at this point.
Issue(t, k, nextPc, po) ==
    /\ task' = [task EXCEPT ![t] = [k EXCEPT !.pc = nextPc]]
    /\ queue' = [queue EXCEPT ![Target(k)] = Append(Dequeue(@, t), t)]
    /\ poolOut' = po

\* The call ends (return or throw): the finally block of run / init
\* releases the connection.
Finish(t, k, out, po) ==
    /\ task' = [task EXCEPT ![t] =
                    [k EXCEPT !.pc = "done", !.out = out,
                              !.released = IF ReleasesConnection(k.client, k.conn)
                                           THEN @ + 1 ELSE @]]
    /\ queue' = [queue EXCEPT ![Target(k)] = Dequeue(@, t)]
    /\ poolOut' = IF ReleasesConnection(k.client, k.conn) THEN po \ {k.conn} ELSE po

\* #getConnection: the connections the awaited call can resolve to.
\* A pool hands out a connection nobody holds.
GetConnection(client) ==
    IF client = "Pool" THEN PoolConns \ poolOut ELSE {ClientConn}

Acquired(k, c) ==
    [k EXCEPT !.conn = c, !.acquired = IF k.client = "Pool" THEN @ + 1 ELSE @]

CheckedOut(k, c) == IF k.client = "Pool" THEN poolOut \cup {c} ELSE poolOut

---------------------------------------------------------------------------
(* Actions.                                                                *)

\* The application calls compute.run(dbClient, plv8Func, ...args).
StartRun(t, e, ck, fn, args) ==
    /\ task[t].pc = "idle"
    /\ calls < MaxCalls
    /\ calls' = calls + 1
    /\ task' = [task EXCEPT ![t] = NewCall("run", e, ck, fn, args, task[t].failed)]
    /\ UNCHANGED <<mode, dbSchema, ledger, db, conn, poolOut, queue, faults, stale,
                   lastBody>>

\* The application calls compute.init(dbClient).
StartInit(t, e, ck) ==
    /\ task[t].pc = "idle"
    /\ calls < MaxCalls
    /\ calls' = calls + 1
    /\ task' = [task EXCEPT ![t] = NewCall("init", e, ck, NoFn, <<>>, task[t].failed)]
    /\ UNCHANGED <<mode, dbSchema, ledger, db, conn, poolOut, queue, faults, stale,
                   lastBody>>

\* PgCompute.run from the connection it obtains up to the first statement
\* it issues: signature extraction, the argument count test, the type
\* mapping, and checkExists up to its first await.
RunPrepare(t) ==
    /\ task[t].pc = "connect" /\ task[t].kind = "run"
    /\ \E c \in GetConnection(task[t].client) :
        LET k0 == Acquired(task[t], c)
            po == CheckedOut(task[t], c)
            e == k0.eng
            funcRecord == ledger[e].table[k0.fn.name]
            funcArgs == RunFuncArgs(k0.fn, k0.args)
            d == CheckDecision(mode[e], funcRecord, funcArgs, k0.fn.body)
            k1 == [k0 EXCEPT !.entry = funcRecord, !.decision = d,
                             !.pre = db,
                             !.funcArgs = NormalizeArgs(funcArgs),
                             !.redeploy = RedeployFlag(d),
                             !.prevBody = lastBody[k0.fn.name]]
            returns == /\ ~ArgumentsMismatch(k0.fn, k0.args)
                       /\ ~UnsupportedArgument(k0.fn, k0.args)
                       /\ ledger[e].init
                       /\ d \in {"skip", "exists"}
        IN  /\ lastBody' = IF returns THEN [lastBody EXCEPT ![k0.fn.name] = k0.fn.body]
                                      ELSE lastBody
            /\ IF ArgumentsMismatch(k0.fn, k0.args)
               THEN /\ Finish(t, k0, ErrOut("Function arguments mismatch"), po)
                    /\ UNCHANGED ledger
               ELSE IF UnsupportedArgument(k0.fn, k0.args)
               THEN /\ Finish(t, k0, ErrOutWith("Unsupported argument type",
                                                UnsupportedKind(k0.fn, k0.args)), po)
                    /\ UNCHANGED ledger
               ELSE IF ~ledger[e].init
               THEN /\ Finish(t, k0, ErrOut("TypeError"), po)
                    /\ UNCHANGED ledger
               ELSE CASE d = "throw" ->
                           /\ Finish(t, k1,
                                     ErrOut(IF funcRecord.present
                                            THEN "deployed but has different arguments or implementation"
                                            ELSE "is not deployed"), po)
                           /\ UNCHANGED ledger
                      [] d \in {"deploy", "redeploy"} ->
                           /\ Issue(t, k1, "begin", po)
                           /\ UNCHANGED ledger
                      [] d = "exists" ->
                           /\ Issue(t, k1, "invoke", po)
                           /\ ledger' = [ledger EXCEPT ![e].table[k0.fn.name].checked = TRUE]
                      [] OTHER ->
                           /\ Issue(t, k1, "invoke", po)
                           /\ UNCHANGED ledger
    /\ UNCHANGED <<mode, dbSchema, db, conn, faults, calls, stale>>

\* #createFunction: BEGIN
ExecBegin(t) ==
    /\ task[t].pc = "begin" /\ AtHead(t)
    /\ \E fault \in Faults :
        \E r \in {Execute(Target(task[t]), Pending(t), fault)} :
            /\ Executed(t, r, fault)
            /\ IF r.ok THEN Issue(t, Logged(t, r), "ddl", poolOut)
                       ELSE Finish(t, Logged(t, r), ErrOut(r.err), poolOut)
    /\ UNCHANGED <<mode, dbSchema, ledger, calls, stale, lastBody>>

\* #createFunction: create or replace function; then the DELETE of a
\* redeploy is issued with the recorded args of the function.
ExecCreateFunction(t) ==
    /\ task[t].pc = "ddl" /\ AtHead(t)
    /\ \E fault \in Faults :
        \E r \in {Execute(Target(task[t]), Pending(t), fault)},
           funcRecord \in {ledger[task[t].eng].table[task[t].fn.name]} :
            /\ Executed(t, r, fault)
            /\ IF ~r.ok THEN Finish(t, Logged(t, r), ErrOut(r.err), poolOut)
               ELSE IF ~task[t].redeploy THEN Issue(t, Logged(t, r), "insert", poolOut)
               ELSE Issue(t, [Logged(t, r) EXCEPT !.delArgs = funcRecord.args],
                          "delete", poolOut)
    /\ UNCHANGED <<mode, dbSchema, ledger, calls, stale, lastBody>>

\* Mutant: a redeployment commits after its DELETE, without the INSERT.
ExecDelete_ThenCommit(t) ==
    /\ task[t].pc = "delete" /\ AtHead(t)
    /\ \E fault \in Faults :
        \E r \in {Execute(Target(task[t]), Pending(t), fault)} :
            /\ Executed(t, r, fault)
            /\ IF r.ok THEN Issue(t, Logged(t, r), "commit", poolOut)
                       ELSE Finish(t, Logged(t, r), ErrOut(r.err), poolOut)
    /\ UNCHANGED <<mode, dbSchema, ledger, calls, stale, lastBody>>

\* #createFunction: DELETE of the old metadata row
ExecDelete(t) ==
    /\ task[t].pc = "delete" /\ AtHead(t)
    /\ \E fault \in Faults :
        \E r \in {Execute(Target(task[t]), Pending(t), fault)} :
            /\ Executed(t, r, fault)
            /\ IF r.ok THEN Issue(t, Logged(t, r), "insert", poolOut)
                       ELSE Finish(t, Logged(t, r), ErrOut(r.err), poolOut)
    /\ UNCHANGED <<mode, dbSchema, ledger, calls, stale, lastBody>>

\* #createFunction: INSERT of the new metadata row
ExecInsert(t) ==
    /\ task[t].pc = "insert" /\ AtHead(t)
    /\ \E fault \in Faults :
        \E r \in {Execute(Target(task[t]), Pending(t), fault)} :
            /\ Executed(t, r, fault)
            /\ IF r.ok THEN Issue(t, Logged(t, r), "commit", poolOut)
                       ELSE Finish(t, Logged(t, r), ErrOut(r.err), poolOut)
    /\ UNCHANGED <<mode, dbSchema, ledger, calls, stale, lastBody>>

\* Mutant: the record is written and marked verified whether or not COMMIT
\* was accepted.
ExecCommit_RecordsAnyway(t) ==
    /\ task[t].pc = "commit" /\ AtHead(t)
    /\ \E fault \in Faults :
        \E r \in {Execute(Target(task[t]), Pending(t), fault)}, k \in {task[t]} :
            /\ Executed(t, r, fault)
            /\ ledger' = [ledger EXCEPT ![k.eng].table[k.fn.name] =
                              Rec(k.funcArgs, Md5(k.fn.body), TRUE)]
            /\ IF r.ok
               THEN /\ Issue(t, Logged(t, r), "invoke", poolOut)
                    /\ stale' = [e \in Engines |->
                                    IF e = k.eng THEN stale[e]
                                    ELSE stale[e] \cup {k.fn.name}]
                    /\ lastBody' = [lastBody EXCEPT ![k.fn.name] = k.fn.body]
               ELSE /\ Finish(t, Logged(t, r), ErrOut(r.err), poolOut)
                    /\ UNCHANGED <<stale, lastBody>>
    /\ UNCHANGED <<mode, dbSchema, calls>>

\* Mutant: the deployment table is one object shared by the instances.
ExecCommit_SharedTable(t) ==
    /\ task[t].pc = "commit" /\ AtHead(t)
    /\ \E fault \in Faults :
        \E r \in {Execute(Target(task[t]), Pending(t), fault)}, k \in {task[t]} :
            /\ Executed(t, r, fault)
            /\ IF r.ok
               THEN /\ Issue(t, Logged(t, r), "invoke", poolOut)
                    /\ ledger' = [e \in Engines |->
                                    [ledger[e] EXCEPT !.table[k.fn.name] =
                                        Rec(k.funcArgs, Md5(k.fn.body), TRUE)]]
                    /\ stale' = [e \in Engines |->
                                    IF e = k.eng THEN stale[e]
                                    ELSE stale[e] \cup {k.fn.name}]
                    /\ lastBody' = [lastBody EXCEPT ![k.fn.name] = k.fn.body]
               ELSE /\ Finish(t, Logged(t, r), ErrOut(r.err), poolOut)
                    /\ UNCHANGED <<ledger, stale, lastBody>>
    /\ UNCHANGED <<mode, dbSchema, calls>>

\* #createFunction: COMMIT, the in-memory record; checkExists marks it
\* checked; run issues the invocation.
ExecCommit(t) ==
    /\ task[t].pc = "commit" /\ AtHead(t)
    /\ \E fault \in Faults :
        \E r \in {Execute(Target(task[t]), Pending(t), fault)}, k \in {task[t]} :
            /\ Executed(t, r, fault)
            /\ IF r.ok
               THEN /\ Issue(t, Logged(t, r), "invoke", poolOut)
                    /\ ledger' = [ledger EXCEPT ![k.eng].table[k.fn.name] =
                                      Rec(k.funcArgs, Md5(k.fn.body), TRUE)]
                    /\ stale' = [e \in Engines |->
                                    IF e = k.eng THEN stale[e]
                                    ELSE stale[e] \cup {k.fn.name}]
                    /\ lastBody' = [lastBody EXCEPT ![k.fn.name] = k.fn.body]
               ELSE /\ Finish(t, Logged(t, r), ErrOut(r.err), poolOut)
                    /\ UNCHANGED <<ledger, stale, lastBody>>
    /\ UNCHANGED <<mode, dbSchema, calls>>

\* Mutant: a rejected invocation is issued again.
ExecInvoke_Retry(t) ==
    /\ task[t].pc = "invoke" /\ AtHead(t)
    /\ \E fault \in Faults :
        \E r \in {Execute(Target(task[t]), Pending(t), fault)} :
            /\ Executed(t, r, fault)
            /\ IF r.ok
               THEN Finish(t, Logged(t, r),
                           OkOut(InvokedBody(View(Target(task[t])), Pending(t))), poolOut)
               ELSE Issue(t, Logged(t, r), "invoke", poolOut)
    /\ UNCHANGED <<mode, dbSchema, ledger, calls, stale, lastBody>>

\* PgCompute.run: the invocation statement and the result it unwraps.
ExecInvoke(t) ==
    /\ task[t].pc = "invoke" /\ AtHead(t)
    /\ \E fault \in Faults :
        \E r \in {Execute(Target(task[t]), Pending(t), fault)} :
            /\ Executed(t, r, fault)
            /\ IF r.ok
               THEN Finish(t, Logged(t, r),
                           OkOut(InvokedBody(View(Target(task[t])), Pending(t))), poolOut)
               ELSE Finish(t, Logged(t, r), ErrOut(r.err), poolOut)
    /\ UNCHANGED <<mode, dbSchema, ledger, calls, stale, lastBody>>

\* PgCompute.init from the connection it obtains: a new Deployment, and
\* Deployment.init up to CREATE SCHEMA.
InitPrepare(t) ==
    /\ task[t].pc = "connect" /\ task[t].kind = "init"
    /\ \E c \in GetConnection(task[t].client) :
        /\ Issue(t, Acquired(task[t], c), "schema", CheckedOut(task[t], c))
        /\ ledger' = [ledger EXCEPT ![task[t].eng] = [init |-> TRUE, table |-> EmptyTable]]
        /\ stale' = [stale EXCEPT ![task[t].eng] =
                        {m.name : m \in {x \in db.meta :
                            x.schema = escapeIdentifier(dbSchema[task[t].eng])}}]
    /\ UNCHANGED <<mode, dbSchema, db, conn, faults, calls, lastBody>>

\* Deployment.init: CREATE SCHEMA IF NOT EXISTS
ExecCreateSchema(t) ==
    /\ task[t].pc = "schema" /\ AtHead(t)
    /\ \E fault \in Faults :
        \E r \in {Execute(Target(task[t]), Pending(t), fault)} :
            /\ Executed(t, r, fault)
            /\ IF r.ok THEN Issue(t, Logged(t, r), "table", poolOut)
                       ELSE Finish(t, Logged(t, r), ErrOut(r.err), poolOut)
    /\ UNCHANGED <<mode, dbSchema, ledger, calls, stale, lastBody>>

\* Mutant: CREATE TABLE replaces the metadata table, its rows are gone.
ExecCreateTable_Recreates(t) ==
    /\ task[t].pc = "table" /\ AtHead(t)
    /\ \E fault \in Faults :
        \E r \in {Execute(Target(task[t]), Pending(t), fault)} :
            /\ db' = [r.db EXCEPT !.meta = {m \in @ : m.schema # Pending(t).schema}]
            /\ faults' = IF fault THEN faults + 1 ELSE faults
            /\ conn' = [conn EXCEPT ![Target(task[t])] = [tx |-> r.tx, ops |-> r.ops]]
            /\ IF r.ok THEN Issue(t, Logged(t, r), "load", poolOut)
                       ELSE Finish(t, Logged(t, r), ErrOut(r.err), poolOut)
    /\ UNCHANGED <<mode, dbSchema, ledger, calls, stale, lastBody>>

\* Deployment.init: CREATE TABLE IF NOT EXISTS
ExecCreateTable(t) ==
    /\ task[t].pc = "table" /\ AtHead(t)
    /\ \E fault \in Faults :
        \E r \in {Execute(Target(task[t]), Pending(t), fault)} :
            /\ Executed(t, r, fault)
            /\ IF r.ok THEN Issue(t, Logged(t, r), "load", poolOut)
                       ELSE Finish(t, Logged(t, r), ErrOut(r.err), poolOut)
    /\ UNCHANGED <<mode, dbSchema, ledger, calls, stale, lastBody>>

\* Mutant: a loaded entry counts as verified.
LoadedRecord_Checked(row) == Rec(row.args, row.body_hashcode, TRUE)

\* #loadDeploymentTable: the entry made of a row, { args, bodyHashCode }
\* without the checked flag
LoadedRecord(row) == Rec(row.args, row.body_hashcode, FALSE)

\* #loadDeploymentTable: the tables rows.forEach can leave behind; of
\* several rows with one name the last one in the result wins.
LoadedTables(tbl, rows) ==
    {x \in [LedgerKeys -> {tbl[n] : n \in LedgerKeys}
                         \cup {LoadedRecord(m) : m \in rows}] :
        \A n \in LedgerKeys :
            IF \E m \in rows : m.name = n
            THEN \E m \in rows : m.name = n /\ x[n] = LoadedRecord(m)
            ELSE x[n] = tbl[n]}

\* Deployment.init: SELECT * FROM the metadata table, loaded into the ledger
ExecLoad(t) ==
    /\ task[t].pc = "load" /\ AtHead(t)
    /\ \E fault \in Faults :
        \E r \in {Execute(Target(task[t]), Pending(t), fault)}, e \in {task[t].eng},
           rows \in {{m \in View(Target(task[t])).meta : m.schema = Pending(t).schema}} :
            /\ Executed(t, r, fault)
            /\ IF r.ok
               THEN /\ Finish(t, Logged(t, r), OkOut(""), poolOut)
                    /\ \E x \in LoadedTables(ledger[e].table, rows) :
                          ledger' = [ledger EXCEPT ![e].table = x]
                    /\ stale' = [stale EXCEPT ![e] = {}]
               ELSE /\ Finish(t, Logged(t, r), ErrOut(r.err), poolOut)
                    /\ UNCHANGED <<ledger, stale>>
    /\ UNCHANGED <<mode, dbSchema, calls, lastBody>>

\* The caller has received the result or the error of the call.
Return(t) ==
    /\ task[t].pc = "done"
    /\ task' = [task EXCEPT ![t] =
                    IdleTask("idle", task[t].failed \/ task[t].out.status = "error")]
    /\ UNCHANGED <<mode, dbSchema, ledger, db, conn, poolOut, queue, faults, calls, stale,
                   lastBody>>

\* The application creates a routine by hand: "create function <name>(<args>)
\* returns JSON as $$<body>$$ language plv8" sent through the client between
\* two calls, as the operator of the MANUAL mode does.
DirectCreate(t, fn, args, body) ==
    /\ task[t].pc = "idle"
    /\ calls < MaxCalls
    /\ Len(args) = Len(fn.params)
    /\ ~UnsupportedArgument(fn, args)
    /\ queue[ClientConn] = <<>>
    /\ calls' = calls + 1
    /\ \E r \in {Execute(ClientConn,
                          Stmt("CREATE_PLAIN", DefaultSchema, fn.name,
                               BuildArgsStr(fn.params, args), body, <<>>, <<>>),
                          FALSE)} :
          /\ db' = r.db
          /\ conn' = [conn EXCEPT ![ClientConn] = [tx |-> r.tx, ops |-> r.ops]]
    /\ UNCHANGED <<mode, dbSchema, ledger, poolOut, queue, faults, stale, lastBody, task>>

\* The steps of the calls the application makes: on engines es, with
\* clients of the kinds cks, for the functions fns and argument lists als.
\* The steps of a call in flight.
Continue(t) ==
    \/ RunPrepare(t)
    \/ ExecBegin(t)
    \/ ExecCreateFunction(t)
    \/ ExecDelete(t)
    \/ ExecInsert(t)
    \/ ExecCommit(t)
    \/ ExecInvoke(t)
    \/ InitPrepare(t)
    \/ ExecCreateSchema(t)
    \/ ExecCreateTable(t)
    \/ ExecLoad(t)
    \/ Return(t)

NextWith(es, cks, fns, als) ==
    \E t \in Tasks :
        \/ \E e \in es, ck \in cks, fn \in fns, args \in als :
              StartRun(t, e, ck, fn, args)
        \/ \E e \in es, ck \in cks : StartInit(t, e, ck)
        \/ Continue(t)

Next == NextWith(Engines, {"Client"}, FuncDefs, ArgLists)

\* State after construction of the engines: nothing initialized, no call
\* started.  ms, ss: the modes and schemas the constructors are given;
\* ts: the tasks that issue calls.
InitWith(ms, ss, ts) ==
    /\ mode \in [Engines -> ms]
    /\ dbSchema \in [Engines -> ss]
    /\ ledger = [e \in Engines |-> [init |-> FALSE, table |-> EmptyTable]]
    /\ db = EmptyStore
    /\ conn = [c \in Conns |-> [tx |-> "idle", ops |-> <<>>]]
    /\ poolOut = {}
    /\ queue = [c \in Conns |-> <<>>]
    /\ faults = 0
    /\ calls = 0
    /\ stale = [e \in Engines |-> {}]
    /\ lastBody = [n \in LedgerKeys |-> ""]
    /\ task = [t \in Tasks |-> IdleTask(IF t \in ts THEN "idle" ELSE "off", FALSE)]

\* Calls issued one after the other, engines in AUTO mode on the public schema.
Init == InitWith({AUTO}, {DefaultSchema}, {"t1"})

Spec == Init /\ [][Next]_vars

\* Functions without parameters as well, and calls with up to two arguments.
FuncDefsAnyArity ==
    FuncDefs \cup {[name |-> nm, params |-> <<>>, body |-> b] : nm \in FuncNames, b \in Bodies}

ArgListsUpToTwo == ArgLists \cup {<<IntV(1), IntV(1)>>}

\* One engine, called with every combination of declared and supplied arguments.
NextArity == NextWith({"e1"}, {"Client"}, FuncDefsAnyArity, ArgListsUpToTwo)

SpecArity == Init /\ [][NextArity]_vars

\* One engine whose calls are all given a Pool.
NextPool == NextWith({"e1"}, {"Pool"}, FuncDefs, ArgLists)

SpecPool == Init /\ [][NextPool]_vars

\* Function expressions without a name, as run can be handed them.
AnonymousDefs ==
    {[name |-> AnonymousName, params |-> ps, body |-> b] :
        ps \in {<<>>, <<"a">>}, b \in Bodies}

\* One engine that is also called with functions that have no name.
NextAnon == NextWith({"e1"}, {"Client"}, FuncDefs \cup AnonymousDefs, ArgLists)

SpecAnon == Init /\ [][NextAnon]_vars

\* Argument values of every kind: the integers around both bounds of the
\* 32-bit range (WideV(-1, MAX_INT) is MIN_INT - 1, WideV(1, MIN_INT) is
\* MAX_INT + 1), and kinds with and without an entry in the type mapping.
TypedValues ==
    {IntV(1), IntV(MIN_INT), WideV(-1, MAX_INT), IntV(MAX_INT), WideV(1, MIN_INT),
     FloatV, BoolV, StrV, DateV, BigIntV(1),
     ObjectV("[object Boolean]"), ObjectV("[object String]"), ObjectV("[object Number]"),
     ObjectV("[object Null]"), ObjectV("[object Array]"), ObjectV("[object Object]"),
     OtherV("undefined"), OtherV("function"), OtherV("symbol")}

PairValues == {IntV(1), StrV, ObjectV("[object Null]"), OtherV("undefined")}

\* Functions of one and of two parameters.
TypedDefs ==
    {[name |-> nm, params |-> ps, body |-> "b1"] :
        nm \in FuncNames, ps \in {<<"a">>, <<"a", "b">>}}

TypedArgLists ==
    {<<>>} \cup {<<v>> : v \in TypedValues}
           \cup {<<v, w>> : v \in PairValues, w \in PairValues}

StartRunTyped(t, fn, args) ==
    /\ calls < MaxTypedCalls
    /\ StartRun(t, "e1", "Client", fn, args)

StartInitTyped(t) ==
    /\ calls < MaxTypedCalls
    /\ StartInit(t, "e1", "Client")

\* One engine called with arguments of every kind.
NextTypes ==
    \E t \in Tasks :
        \/ \E fn \in TypedDefs, args \in TypedArgLists : StartRunTyped(t, fn, args)
        \/ StartInitTyped(t)
        \/ Continue(t)

SpecTypes == Init /\ [][NextTypes]_vars

\* An AUTO engine and a MANUAL engine on one store, and an operator who
\* creates routines by hand.
InitManual ==
    /\ InitWith({AUTO, MANUAL}, {DefaultSchema}, {"t1"})
    /\ mode["e1"] = AUTO /\ mode["e2"] = MANUAL

NextManual ==
    \/ Next
    \/ \E t \in Tasks, fn \in FuncDefs, args \in ArgLists, body \in Bodies :
          DirectCreate(t, fn, args, body)

SpecManual == InitManual /\ [][NextManual]_vars

\* One engine constructed with DeploymentMode.DEV.
InitDev == InitWith({DEV}, {DefaultSchema}, {"t1"})

NextDev == NextWith({"e1"}, {"Client"}, FuncDefs, ArgLists)

SpecDev == InitDev /\ [][NextDev]_vars

\* One engine constructed with the schema "tracker".
InitSchema == InitWith({AUTO}, Schemas \ {DefaultSchema}, {"t1"})

NextSchema == NextWith({"e1"}, {"Client"}, FuncDefs, ArgLists)

SpecSchema == InitSchema /\ [][NextSchema]_vars

\* Call t is not between its start and its result.
Quiet(t) == task[t].pc \in {"off", "idle", "done"}

\* The application starts a run without awaiting the runs in flight; it
\* has awaited every init.
StartRunConc(t, ck, fn, args) ==
    /\ \A u \in Tasks : task[u].kind = "init" => Quiet(u)
    /\ calls < MaxConcCalls
    /\ StartRun(t, "e1", ck, fn, args)

\* The application starts an init when no other call is in flight.
StartInitConc(t, ck) ==
    /\ \A u \in Tasks \ {t} : Quiet(u)
    /\ calls < MaxConcCalls
    /\ StartInit(t, "e1", ck)

\* One engine whose runs are started without awaiting one another.
InitConc == InitWith({AUTO}, {DefaultSchema}, Tasks)

NextConc ==
    \E t \in Tasks :
        \/ \E ck \in ClientKinds, fn \in {d \in FuncDefs : d.body = "b1"},
              args \in {<<v>> : v \in ArgValues} : StartRunConc(t, ck, fn, args)
        \/ \E ck \in ClientKinds : StartInitConc(t, ck)
        \/ Continue(t)

SpecConc == InitConc /\ [][NextConc]_vars

\* The store a process finds in which an earlier process has deployed
\* function f of FuncNames with body b1 and an int4 parameter.
StoreWithDeployment ==
    LET n == CHOOSE x \in FuncNames : TRUE
        sig == BuildArgsStr(<<"a">>, <<IntV(1)>>)
    IN  [schemas |-> {DefaultSchema}, tables |-> {DefaultSchema},
         routines |-> {[schema |-> DefaultSchema, name |-> n, sig |-> sig, body |-> "b1"]},
         meta |-> {[schema |-> DefaultSchema, name |-> n, args |-> sig,
                    body_hashcode |-> Md5("b1")]}]

\* New engines in a process started on that store.
InitStored ==
    /\ mode = [e \in Engines |-> AUTO]
    /\ dbSchema = [e \in Engines |-> DefaultSchema]
    /\ ledger = [e \in Engines |-> [init |-> FALSE, table |-> EmptyTable]]
    /\ db = StoreWithDeployment
    /\ conn = [c \in Conns |-> [tx |-> "idle", ops |-> <<>>]]
    /\ poolOut = {}
    /\ queue = [c \in Conns |-> <<>>]
    /\ faults = 0
    /\ calls = 0
    /\ stale = [e \in Engines |-> {}]
    /\ lastBody = [n \in LedgerKeys |-> IF n \in FuncNames THEN "b1" ELSE ""]
    /\ task = [t \in Tasks |-> IdleTask("idle", FALSE)]

\* One engine on that store whose runs, of either body, are started without
\* awaiting one another.
StartRunStored(t, ck, fn, args) ==
    /\ calls < MaxStoredCalls
    /\ StartRunConc(t, ck, fn, args)

StartInitStored(t, ck) ==
    /\ calls < MaxStoredCalls
    /\ StartInitConc(t, ck)

NextStored ==
    \E t \in Tasks :
        \/ \E ck \in ClientKinds, fn \in FuncDefs, args \in {<<v>> : v \in ArgValues} :
              StartRunStored(t, ck, fn, args)
        \/ \E ck \in ClientKinds : StartInitStored(t, ck)
        \/ Continue(t)

SpecStored == InitStored /\ [][NextStored]_vars

---------------------------------------------------------------------------
(* Vocabulary of the properties.                                           *)

\* The kinds of the statements call t has issued so far, in order.
Issued(t) == [i \in 1..Len(task[t].log) |-> task[t].log[i].kind]

DeployStmts == {"BEGIN", "CREATE_FUNCTION", "DELETE_META", "INSERT_META", "COMMIT"}

IssuedAny(t, kinds) == \E i \in 1..Len(task[t].log) : task[t].log[i].kind \in kinds

\* checkExists has just returned to run without throwing: run has issued
\* the invocation and nothing else has happened since.
CheckExistsReturned(t) == task[t].kind = "run" /\ task[t].pc = "invoke"

RunDone(t) == task[t].kind = "run" /\ task[t].pc = "done"
RunOk(t) == RunDone(t) /\ task[t].out.status = "ok"
RunFailed(t) == RunDone(t) /\ task[t].out.status = "error"

\* The routine name(sig) of schema sch has body b in the committed store.
RoutineIs(sch, nm, sig, b) ==
    \E r \in db.routines : r.schema = sch /\ r.name = nm /\ r.sig = sig /\ r.body = b

MetaRows(sch, nm) == {m \in db.meta : m.schema = sch /\ m.name = nm}

MetaRowIs(sch, nm, sig, hash) ==
    \E m \in MetaRows(sch, nm) : m.args = sig /\ m.body_hashcode = hash

\* Call t's deployment target is in place: the routine, and the ledger entry.
Deployed(t) ==
    LET k == task[t]
    IN  /\ RoutineIs(dbSchema[k.eng], k.fn.name, k.funcArgs, k.fn.body)
        /\ ledger[k.eng].table[k.fn.name].present
        /\ ledger[k.eng].table[k.fn.name].args = k.funcArgs
        /\ ledger[k.eng].table[k.fn.name].bodyHashCode = Md5(k.fn.body)

---------------------------------------------------------------------------
C1_WithoutStaleness ==
    \A t \in Tasks :
        /\ CheckExistsReturned(t) /\ mode[task[t].eng] = AUTO
        /\ task[t].decision # "skip"
        => Deployed(t)

---------------------------------------------------------------------------
\* The bodies of the routines stored under the name call t invokes.
StoredBodies(t) ==
    {r.body : r \in {x \in db.routines :
        x.schema = dbSchema[task[t].eng] /\ x.name = task[t].fn.name}}

\* Call t is a run that resumes with its connection and passes the
\* argument tests, on an initialized engine whose record for the function
\* is verified.
EntersVerified(t) ==
    /\ task[t].kind = "run" /\ task[t].pc = "connect"
    /\ ~ArgumentsMismatch(task[t].fn, task[t].args)
    /\ ~UnsupportedArgument(task[t].fn, task[t].args)
    /\ ledger[task[t].eng].init
    /\ ledger[task[t].eng].table[task[t].fn.name].present
    /\ ledger[task[t].eng].table[task[t].fn.name].checked

(* C2: once a name is verified in an engine instance, a later checkExists  *)
(* for it returns at once: it issues no DDL and no metadata statement and  *)
(* changes neither the store nor the ledger, whatever body or signature is *)
(* supplied and whatever other instances have done; the run issues only    *)
(* the invocation, and a result it returns comes from a routine already in *)
(* the store.                                                              *)
C2_VerifiedReturnsAtOnce ==
    /\ [][\A t \in Tasks :
            EntersVerified(t) /\ task'[t] # task[t]
            => /\ task'[t].pc = "invoke" /\ task'[t].decision = "skip"
               /\ task'[t].log = <<>>
               /\ db' = db /\ ledger' = ledger /\ conn' = conn]_vars
    /\ [](\A t \in Tasks :
            task[t].kind = "run" /\ task[t].decision = "skip"
            => /\ \A i \in 1..Len(task[t].log) : task[t].log[i].kind = "INVOKE"
               /\ RunOk(t) => task[t].out.body \in StoredBodies(t))
    /\ [][\A t \in Tasks :
            task[t].kind = "run" /\ task[t].decision = "skip" /\ task'[t].decision = "skip"
            => db'.meta = db.meta /\ db'.routines = db.routines]_vars

\* C2 witness: a verified function was run with a changed body; the run
\* issued the invocation only and returned what the old routine computes.
C2_Witness ==
    \E t \in Tasks :
        /\ RunOk(t) /\ task[t].decision = "skip"
        /\ task[t].entry.bodyHashCode # Md5(task[t].fn.body)
        /\ Issued(t) = <<"INVOKE">>
        /\ task[t].out.body # task[t].fn.body
        /\ Md5(task[t].out.body) = task[t].entry.bodyHashCode

\* The metadata row that ledger entry rec of call t's function mirrors.
RowOf(t, rec) ==
    [schema |-> escapeIdentifier(dbSchema[task[t].eng]), name |-> task[t].fn.name,
     args |-> rec.args, body_hashcode |-> rec.bodyHashCode]

\* The rows the metadata table held for call t's function when the call
\* entered checkExists.
EntryRows(t) ==
    {m \in task[t].pre.meta :
        m.schema = escapeIdentifier(dbSchema[task[t].eng]) /\ m.name = task[t].fn.name}

\* Call t entered checkExists on a freshly initialized engine: its record
\* is unverified and is the one row the metadata table has for the name.
EnteredFresh(t) ==
    /\ task[t].kind = "run" /\ task[t].decision # ""
    /\ task[t].entry.present /\ ~task[t].entry.checked
    /\ EntryRows(t) = {RowOf(t, task[t].entry)}

\* ... and the recorded fingerprint is not that of the supplied body.
FoundChangedBody(t) ==
    /\ EnteredFresh(t) /\ mode[task[t].eng] = AUTO
    /\ task[t].entry.bodyHashCode # Md5(task[t].fn.body)

(* C3: under AUTO, a run on a freshly initialized engine of a function     *)
(* whose body differs from the recorded one redeploys exactly once (one    *)
(* create-or-replace, one delete of the old row, one insert) before the    *)
(* invocation; the one persisted row of the name then carries the          *)
(* fingerprint of the new body, which differs from the old one, and the    *)
(* invocation executes the new body.                                       *)
C3_ChangedBodyRedeployedOnce ==
    \A t \in Tasks :
        RunOk(t) /\ FoundChangedBody(t)
        => /\ Issued(t) = <<"BEGIN", "CREATE_FUNCTION", "DELETE_META",
                            "INSERT_META", "COMMIT", "INVOKE">>
           /\ MetaRows(escapeIdentifier(dbSchema[task[t].eng]), task[t].fn.name)
                = {RowOf(t, Rec(task[t].funcArgs, Md5(task[t].fn.body), TRUE))}
           /\ Md5(task[t].fn.body) # task[t].entry.bodyHashCode
           /\ task[t].out.body = task[t].fn.body

\* C3 witness: such a run has completed, with the signature changed too.
C3_Witness ==
    \E t \in Tasks :
        /\ RunOk(t) /\ FoundChangedBody(t)
        /\ task[t].entry.args # task[t].funcArgs
        /\ task[t].out.body = task[t].fn.body

---------------------------------------------------------------------------
\* Call t entered checkExists with a record that mirrors the one metadata
\* row of the name: its engine has verified the name, or has loaded it
\* since the latest deployment.
EnteredUpToDate(t) ==
    /\ task[t].kind = "run" /\ task[t].decision # ""
    /\ task[t].entry.present
    /\ EntryRows(t) = {RowOf(t, task[t].entry)}

EntersMatching(t) ==
    LET funcRecord == ledger[task[t].eng].table[task[t].fn.name]
    IN  /\ task[t].kind = "run" /\ task[t].pc = "connect"
        /\ ~ArgumentsMismatch(task[t].fn, task[t].args)
        /\ ~UnsupportedArgument(task[t].fn, task[t].args)
        /\ ledger[task[t].eng].init
        /\ funcRecord.present
        /\ funcRecord.args = NormalizeArgs(RunFuncArgs(task[t].fn, task[t].args))
        /\ funcRecord.bodyHashCode = Md5(task[t].fn.body)

---------------------------------------------------------------------------
IsPrefix(a, b) == Len(a) <= Len(b) /\ a = SubSeq(b, 1, Len(a))

\* The COMMIT of call t's #createFunction has succeeded.
Committed(t) ==
    \E i \in 1..Len(task[t].log) : task[t].log[i].kind = "COMMIT" /\ task[t].log[i].ok

(* C5: under AUTO, when the engine has no record for the name, checkExists *)
(* issues BEGIN, the create-or-replace DDL, one INSERT of the metadata row *)
(* and COMMIT, in this order and without a DELETE; once it has returned,   *)
(* the routine, the metadata row (name, signature, fingerprint) and the    *)
(* same in-memory record, marked verified, are in place; a run that        *)
(* returns then returns the result of the deployed body.                   *)
C5_NewFunctionDeployed ==
    \A t \in Tasks :
        task[t].kind = "run" /\ task[t].decision = "deploy" /\ mode[task[t].eng] = AUTO
        => /\ ~task[t].entry.present
           /\ IsPrefix(Issued(t), <<"BEGIN", "CREATE_FUNCTION", "INSERT_META",
                                    "COMMIT", "INVOKE">>)
           /\ Committed(t)
                => /\ RoutineIs(DefaultSchema, task[t].fn.name, task[t].funcArgs,
                                task[t].fn.body)
                   /\ MetaRowIs(escapeIdentifier(dbSchema[task[t].eng]), task[t].fn.name,
                                task[t].funcArgs, Md5(task[t].fn.body))
                   /\ ledger[task[t].eng].table[task[t].fn.name]
                        = Rec(task[t].funcArgs, Md5(task[t].fn.body), TRUE)
           /\ RunOk(t) => Committed(t) /\ task[t].out.body = task[t].fn.body

\* C5 witness: a function unknown to the engine was deployed and run.
C5_Witness ==
    \E t \in Tasks :
        /\ RunOk(t) /\ task[t].decision = "deploy" /\ mode[task[t].eng] = AUTO
        /\ Issued(t) = <<"BEGIN", "CREATE_FUNCTION", "INSERT_META", "COMMIT", "INVOKE">>
        /\ MetaRows(escapeIdentifier(dbSchema[task[t].eng]), task[t].fn.name)
             = {RowOf(t, Rec(task[t].funcArgs, Md5(task[t].fn.body), TRUE))}
        /\ task[t].out.body = task[t].fn.body

---------------------------------------------------------------------------
(* C6 as stated: after any sequence of successful calls under AUTO, across *)
(* re-initializations and changing bodies or argument types, the metadata  *)
(* table holds exactly one row for a function name that was run.  Refuted  *)
(* by the code: an engine whose ledger has no record of a name another     *)
(* instance deployed adds a second row for it.                             *)
C6_OneRowPerName ==
    \A t \in Tasks :
        /\ RunOk(t) /\ mode[task[t].eng] = AUTO
        /\ \A u \in Tasks : ~task[u].failed
        => Cardinality(MetaRows(escapeIdentifier(dbSchema[task[t].eng]),
                                task[t].fn.name)) = 1

---------------------------------------------------------------------------
(* C7: while a redeploy has not committed, and after any of its statements *)
(* has failed, the routines and the metadata rows of the store are those   *)
(* the call found: never the routine replaced with the old fingerprint     *)
(* still recorded, nor the fingerprint replaced with the old routine still *)
(* stored.                                                                 *)
C7_FailedRedeployLeavesStore ==
    \A t \in Tasks :
        task[t].kind = "run" /\ task[t].decision = "redeploy" /\ ~Committed(t)
        => db.routines = task[t].pre.routines /\ db.meta = task[t].pre.meta

\* C7 witness: the INSERT of a redeploy with a changed body failed after
\* the DDL and the DELETE had succeeded; the old routine and the old row
\* are still there.
C7_Witness ==
    \E t \in Tasks :
        /\ RunFailed(t) /\ task[t].decision = "redeploy"
        /\ Issued(t) = <<"BEGIN", "CREATE_FUNCTION", "DELETE_META", "INSERT_META">>
        /\ task[t].log[2].ok /\ task[t].log[3].ok /\ ~task[t].log[4].ok
        /\ task[t].entry.args = task[t].funcArgs
        /\ \E b \in Bodies \ {task[t].fn.body} :
              /\ RoutineIs(DefaultSchema, task[t].fn.name, task[t].funcArgs, b)
              /\ MetaRowIs(escapeIdentifier(dbSchema[task[t].eng]), task[t].fn.name,
                           task[t].funcArgs, Md5(b))

---------------------------------------------------------------------------
\* Call t is a run that supplies another number of arguments than its
\* function declares.
CountMismatch(t) ==
    task[t].kind = "run" /\ Len(task[t].args) # Len(task[t].fn.params)

(* C8: a run with n declared parameters and m # n arguments fails with the *)
(* argument-count error; the step in which it does so issues no statement  *)
(* and changes neither the store, nor a session, nor the ledger; whatever  *)
(* the deployment state of the function.                                   *)
C8_CountMismatchFailsAtOnce ==
    /\ [][\A t \in Tasks :
            CountMismatch(t) /\ task[t].pc = "connect" /\ task'[t] # task[t]
            => /\ task'[t].pc = "done"
               /\ task'[t].out = ErrOut("Function arguments mismatch")
               /\ task'[t].log = <<>>
               /\ db' = db /\ conn' = conn /\ queue' = queue /\ ledger' = ledger]_vars
    /\ [](\A t \in Tasks :
            CountMismatch(t) /\ task[t].pc # "connect"
            => /\ RunFailed(t) /\ task[t].out.err = "Function arguments mismatch"
               /\ task[t].log = <<>>)

\* C8 witness: too many arguments for a function the engine has verified.
C8_Witness ==
    \E t \in Tasks :
        /\ RunFailed(t) /\ Len(task[t].args) > Len(task[t].fn.params)
        /\ task[t].out.err = "Function arguments mismatch"
        /\ ledger[task[t].eng].table[task[t].fn.name].checked
        /\ task[t].log = <<>>

---------------------------------------------------------------------------
\* Call t holds a connection: it has obtained one and not yet finished.
InFlight(t) == task[t].pc \notin {"off", "idle", "connect", "done"}

(* C9: a call given a Pool checks a connection out once and releases it    *)
(* once on every exit path; the checked-out connections are exactly those  *)
(* of the calls in flight, so none is checked out when every call has      *)
(* finished.                                                               *)
C9_PoolConnectionReleasedOnce ==
    /\ \A t \in Tasks :
          task[t].client = "Pool"
          => /\ task[t].pc = "connect" => task[t].acquired = 0 /\ task[t].released = 0
             /\ InFlight(t) => /\ task[t].acquired = 1 /\ task[t].released = 0
                               /\ task[t].conn \in poolOut
             /\ task[t].pc = "done" => task[t].acquired = 1 /\ task[t].released = 1
    /\ poolOut = {task[t].conn : t \in {u \in Tasks : InFlight(u) /\ task[u].client = "Pool"}}

\* C9 witness: a run whose deployment failed has given its connection back.
C9_Witness ==
    \E t \in Tasks :
        /\ RunFailed(t) /\ task[t].client = "Pool"
        /\ task[t].decision = "deploy" /\ ~Committed(t) /\ task[t].log # <<>>
        /\ task[t].acquired = 1 /\ task[t].released = 1
        /\ poolOut = {}

(* C10: a run given a Pool checks out exactly one connection and issues    *)
(* every statement, those of checkExists and the invocation, on it.        *)
C10_OneConnectionPerRun ==
    \A t \in Tasks :
        task[t].kind = "run" /\ task[t].client = "Pool" /\ task[t].pc # "connect"
        => /\ task[t].acquired = 1
           /\ task[t].conn \in PoolConns
           /\ \A i \in 1..Len(task[t].log) : task[t].log[i].conn = task[t].conn
           /\ \A c \in Conns : (\E i \in 1..Len(queue[c]) : queue[c][i] = t)
                                 => c = task[t].conn

\* C10 witness: a run deployed and invoked its function on one connection.
C10_Witness ==
    \E t \in Tasks :
        /\ RunOk(t) /\ task[t].client = "Pool"
        /\ Issued(t) = <<"BEGIN", "CREATE_FUNCTION", "INSERT_META", "COMMIT", "INVOKE">>
        /\ task[t].acquired = 1
        /\ \A i \in 1..Len(task[t].log) : task[t].log[i].conn = task[t].conn

---------------------------------------------------------------------------
\* Call t is a run that resumes with its connection and passes the
\* argument tests, on an initialized engine in MANUAL mode.
EntersManual(t) ==
    /\ task[t].kind = "run" /\ task[t].pc = "connect"
    /\ ~ArgumentsMismatch(task[t].fn, task[t].args)
    /\ ~UnsupportedArgument(task[t].fn, task[t].args)
    /\ ledger[task[t].eng].init
    /\ mode[task[t].eng] = MANUAL

\* The record the engine of call t holds for the function of the call
\* differs from the call in signature or in fingerprint.
RecordDisagrees(t) ==
    LET funcRecord == ledger[task[t].eng].table[task[t].fn.name]
    IN  \/ funcRecord.args # NormalizeArgs(RunFuncArgs(task[t].fn, task[t].args))
        \/ funcRecord.bodyHashCode # Md5(task[t].fn.body)

(* C11 as stated: under MANUAL, checkExists returns at once for every      *)
(* input: it never throws, issues no statement and leaves the store, the   *)
(* in-memory index and its verified flags unchanged; run goes on to the    *)
(* invocation.  Refuted by the code: checkExists throws when the index has *)
(* no record of the name or a record that disagrees with the call.         *)
C11_ManualReturnsAtOnce ==
    [][\A t \in Tasks :
          EntersManual(t) /\ task'[t] # task[t]
          => /\ task'[t].pc = "invoke" /\ task'[t].log = <<>>
             /\ ledger' = ledger /\ db' = db /\ conn' = conn]_vars

---------------------------------------------------------------------------
---------------------------------------------------------------------------
\* The routines the store held under the name and the argument types of
\* call t when the call entered checkExists.
EntryRoutines(t) ==
    {r \in task[t].pre.routines :
        /\ r.schema = dbSchema[task[t].eng] /\ r.name = task[t].fn.name
        /\ SigTypes(r.sig) = SigTypes(task[t].funcArgs)}

(* C13 as stated: under MANUAL, run issues the invocation whatever the     *)
(* metadata table and the index contain: when the routine was created by   *)
(* hand and has no metadata row, run returns its result; when no routine   *)
(* of the name exists, the "does not exist" error of the data store        *)
(* reaches the caller.  Refuted by the code: without a record run fails in *)
(* checkExists and the invocation is never issued.                         *)
C13_ManualRunInvokes ==
    \A t \in Tasks :
        /\ RunDone(t) /\ mode[task[t].eng] = MANUAL /\ task[t].decision # ""
        /\ faults = 0
        /\ EntryRows(t) = {}
        => /\ Issued(t) = <<"INVOKE">>
           /\ EntryRoutines(t) # {}
                => RunOk(t) /\ task[t].out.body \in {r.body : r \in EntryRoutines(t)}
           /\ {r \in task[t].pre.routines : r.name = task[t].fn.name} = {}
                => RunFailed(t) /\ task[t].out.err = "does not exist"

---------------------------------------------------------------------------
(* C14 as stated: under DEV, every run redeploys the function before it    *)
(* invokes it: the create-or-replace DDL and the rewrite of the metadata   *)
(* row are issued on each call, also on later calls of an unchanged        *)
(* function in the same instance.  Refuted by the code: the DEV mode is    *)
(* declared but never tested, so the engine behaves as under AUTO.         *)
C14_DevRedeploysEveryRun ==
    \A t \in Tasks :
        RunOk(t) /\ mode[task[t].eng] = DEV
        => /\ IsPrefix(<<"BEGIN", "CREATE_FUNCTION">>, Issued(t))
           /\ IssuedAny(t, {"INSERT_META"})
           /\ Issued(t)[Len(Issued(t))] = "INVOKE"

---------------------------------------------------------------------------
\* Call t entered checkExists under AUTO with a not yet verified record
\* that has the fingerprint of the supplied body and a signature other
\* than that of the call.
FoundChangedSignature(t) ==
    /\ task[t].kind = "run" /\ task[t].decision # ""
    /\ mode[task[t].eng] = AUTO
    /\ task[t].entry.present /\ ~task[t].entry.checked
    /\ task[t].entry.args # task[t].funcArgs
    /\ task[t].entry.bodyHashCode = Md5(task[t].fn.body)

---------------------------------------------------------------------------
\* Call t entered checkExists for a deployed function (its row and its
\* routine are stored as recorded) with the recorded body and as many
\* arguments as recorded, one of them of another type.
FoundChangedType(t) ==
    /\ EnteredUpToDate(t)
    /\ task[t].entry.bodyHashCode = Md5(task[t].fn.body)
    /\ Len(task[t].entry.args) = Len(task[t].funcArgs)
    /\ SigTypes(task[t].entry.args) # SigTypes(task[t].funcArgs)
    /\ \A r \in task[t].pre.routines :
          r.schema = dbSchema[task[t].eng] /\ r.name = task[t].fn.name
          => r.sig = task[t].entry.args /\ r.body = task[t].fn.body

---------------------------------------------------------------------------
(* C17 as stated: an engine constructed with a schema S of its own creates *)
(* S and the metadata table of S on init, creates the routine in S,        *)
(* addresses the invocation to S and writes the metadata row to the table  *)
(* of S: once a deployment has committed, the routine and the row are in   *)
(* S, no other schema holds a routine or a row of the name, and a run that *)
(* meets no rejected statement returns the result of the routine.  Refuted *)
(* by the code: the DDL names the routine without a schema, so it is       *)
(* created in public, and the invocation addressed to S does not find it.  *)
C17_RoutineInOwnSchema ==
    \A t \in Tasks :
        /\ task[t].kind = "run" /\ dbSchema[task[t].eng] # DefaultSchema
        /\ Committed(t) /\ faults = 0
        => /\ dbSchema[task[t].eng] \in db.schemas
           /\ escapeIdentifier(dbSchema[task[t].eng]) \in db.tables
           /\ RoutineIs(dbSchema[task[t].eng], task[t].fn.name, task[t].funcArgs,
                        task[t].fn.body)
           /\ MetaRowIs(escapeIdentifier(dbSchema[task[t].eng]), task[t].fn.name,
                        task[t].funcArgs, Md5(task[t].fn.body))
           /\ \A r \in db.routines : r.schema = dbSchema[task[t].eng]
           /\ \A m \in db.meta : m.schema = escapeIdentifier(dbSchema[task[t].eng])
           /\ RunDone(t) => RunOk(t) /\ task[t].out.body = task[t].fn.body

---------------------------------------------------------------------------
\* The metadata table held no row with the key of call t when the call
\* entered checkExists.
NoRowAtEntry(t) ==
    \A m \in EntryRows(t) : m.args # task[t].funcArgs

\* Runs t and u of one engine both found no record of the same function,
\* not yet in the metadata table either, and both deploy it under the same
\* key (name, args).
BothDeploy(t, u) ==
    /\ t # u
    /\ task[t].kind = "run" /\ task[u].kind = "run"
    /\ task[t].eng = task[u].eng
    /\ task[t].decision = "deploy" /\ task[u].decision = "deploy"
    /\ task[t].fn = task[u].fn /\ task[t].funcArgs = task[u].funcArgs
    /\ NoRowAtEntry(t) /\ NoRowAtEntry(u)

\* The metadata rows with the key of call t.
KeyRows(t) ==
    {m \in MetaRows(escapeIdentifier(dbSchema[task[t].eng]), task[t].fn.name) :
        m.args = task[t].funcArgs}

\* The INSERT of call t was rejected as a duplicate and the call has
\* rejected with that error.
RejectedAsDuplicate(t) ==
    /\ RunFailed(t) /\ task[t].out.err = "duplicate key value"
    /\ task[t].log # <<>>
    /\ task[t].log[Len(task[t].log)] =
          LogEntry("INSERT_META", Target(task[t]), FALSE)

---------------------------------------------------------------------------
\* Call t is an init that has replaced the Deployment of its engine.
Reinitialized(t) == task[t].kind = "init" /\ task[t].pc # "connect"

\* No entry of engine e's ledger is marked verified.
NoneVerified(e) == \A n \in FuncNames : ~ledger[e].table[n].checked

\* The rows the metadata table of engine e holds for name n.
PersistedRows(e, n) == MetaRows(escapeIdentifier(dbSchema[e]), n)

\* Call t is a run about to enter checkExists on an AUTO engine whose entry
\* for the function is the unverified copy of the one persisted row.
EntersUnverified(t) ==
    /\ task[t].kind = "run" /\ task[t].pc = "connect"
    /\ mode[task[t].eng] = AUTO /\ ledger[task[t].eng].init
    /\ ledger[task[t].eng].table[task[t].fn.name].present
    /\ \E m \in PersistedRows(task[t].eng, task[t].fn.name) :
          /\ PersistedRows(task[t].eng, task[t].fn.name) = {m}
          /\ ledger[task[t].eng].table[task[t].fn.name] = LoadedRecord(m)

(* C19: the verified flags live in one initialized engine only.  From the  *)
(* moment init has replaced the Deployment of an engine, whatever flags    *)
(* this or another engine on the same store had, no function of the engine *)
(* is marked verified, and when init has completed every entry is the      *)
(* unverified copy of a persisted row.  The next run of a function then    *)
(* compares the fingerprint of its current body with the persisted one: if *)
(* they differ it starts the redeployment (BEGIN of #createFunction with   *)
(* the redeploy flag), and if fingerprint and signature agree it marks the *)
(* function verified and goes on to the invocation.                        *)
C19_VerifiedFlagsPerInit ==
    /\ [](\A t \in Tasks : Reinitialized(t) => NoneVerified(task[t].eng))
    /\ [](\A t \in Tasks :
            task[t].kind = "init" /\ task[t].pc = "done" /\ task[t].out.status = "ok"
            => \A n \in FuncNames :
                  /\ PersistedRows(task[t].eng, n) # {}
                        => ledger[task[t].eng].table[n].present
                  /\ ledger[task[t].eng].table[n].present
                        => \E m \in PersistedRows(task[t].eng, n) :
                              ledger[task[t].eng].table[n] = LoadedRecord(m))
    /\ [][\A t \in Tasks :
            EntersUnverified(t) /\ task'[t].decision # ""
            => \E m \in PersistedRows(task[t].eng, task[t].fn.name) :
                  /\ m.body_hashcode # Md5(task[t].fn.body)
                        => /\ task'[t].decision = "redeploy"
                           /\ task'[t].redeploy
                           /\ task'[t].pc = "begin"
                           /\ UNCHANGED ledger
                  /\ m.body_hashcode = Md5(task[t].fn.body) /\ m.args = task'[t].funcArgs
                        => /\ task'[t].decision = "exists"
                           /\ task'[t].pc = "invoke"
                           /\ ledger'[task[t].eng].table[task[t].fn.name].checked]_vars

\* C19 witness: a function is marked verified in one engine while a run on
\* the other engine, initialized on the same store, has found its own entry
\* unverified, the fingerprint of the supplied body different from the
\* persisted one, and has started the redeployment.
C19_Witness ==
    \E t \in Tasks, e \in Engines :
        /\ task[t].kind = "run" /\ task[t].pc = "begin" /\ e # task[t].eng
        /\ ledger[e].table[task[t].fn.name].checked
        /\ task[t].decision = "redeploy" /\ task[t].redeploy
        /\ task[t].entry.present /\ ~task[t].entry.checked
        /\ EntryRows(t) = {RowOf(t, task[t].entry)}
        /\ task[t].entry.bodyHashCode # Md5(task[t].fn.body)
        /\ task[t].entry.args = task[t].funcArgs


---------------------------------------------------------------------------
\* Call t is a run of a function value without a name that has got past
\* obtaining its connection.
RunsAnonymous(t) ==
    /\ task[t].kind = "run" /\ task[t].fn.name = AnonymousName
    /\ task[t].pc # "connect"

(* C20: run with a function value that has no name fails during signature *)
(* extraction with the anonymous-function error, before checkExists is     *)
(* called and before any statement is issued to the data store.  Refuted:  *)
(* run takes plv8Func.name as it is, and on an initialized AUTO engine the *)
(* call enters checkExists and issues BEGIN and the create-or-replace.     *)
C20_AnonymousFailsAtOnce ==
    \A t \in Tasks :
        RunsAnonymous(t)
        => /\ task[t].pc = "done"
           /\ task[t].out = ErrOut("Anonymous functions are not supported")
           /\ task[t].decision = ""
           /\ task[t].log = <<>>

\* What the code does with such a call instead, argument count right and
\* engine initialized: it decides to deploy and the data store rejects the
\* create-or-replace statement, after BEGIN.
C20_AnonymousReachesStore ==
    \E t \in Tasks :
        /\ RunsAnonymous(t) /\ task[t].pc = "done" /\ faults = 0
        /\ task[t].decision = "deploy"
        /\ Issued(t) = <<"BEGIN", "CREATE_FUNCTION">>
        /\ task[t].out = ErrOut("syntax error")
        /\ conn[Target(task[t])].tx = "aborted"


---------------------------------------------------------------------------
\* Argument value arg is of a kind outside number, boolean, string and Date.
OutsideClaimedKinds(arg) ==
    /\ arg.type \notin {"number", "boolean", "string"}
    /\ ~(arg.type = "object" /\ arg.tag = "[object Date]")

\* Argument value arg is of a kind outside number, bigint, boolean, string,
\* Date and the Boolean and String objects.
OutsideMappedKinds(arg) ==
    /\ arg.type \notin {"number", "bigint", "boolean", "string"}
    /\ ~(arg.type = "object"
         /\ arg.tag \in {"[object Date]", "[object Boolean]", "[object String]"})

\* Call t is a run that is about to extract the signature.
AboutToExtract(t) == task[t].kind = "run" /\ task[t].pc = "connect"

\* The step of call t fails at once with the unsupported-argument-type
\* error naming kind: no statement is issued, the ledger and the data store
\* stay as they are.
FailsUnsupported(t, kind) ==
    /\ task'[t].pc = "done"
    /\ task'[t].out = ErrOutWith("Unsupported argument type", kind)
    /\ task'[t].decision = "" /\ task'[t].log = <<>>
    /\ UNCHANGED <<ledger, db, conn, queue, lastBody>>

(* C21 as stated: when any supplied argument is of a kind outside number,  *)
(* boolean, string and Date, run fails with the unsupported-argument-type  *)
(* error naming the kind, before checkExists: no statement, ledger         *)
(* unchanged.  Refuted: a BigInt and the Boolean and String objects have a *)
(* mapping, and the argument count is tested first.                        *)
C21_OutsideKindsFailAtOnce ==
    [][\A t \in Tasks :
        /\ AboutToExtract(t) /\ task'[t] # task[t]
        /\ \E i \in 1..Len(task[t].args) : OutsideClaimedKinds(task[t].args[i])
        => \E i \in 1..Len(task[t].args) :
              /\ OutsideClaimedKinds(task[t].args[i])
              /\ FailsUnsupported(t, ObservedKind(task[t].args[i]))]_vars

(* C21 amended: when as many arguments are supplied as the function        *)
(* declares and one of them is of a kind outside number, bigint, boolean,  *)
(* string, Date, Boolean object and String object, run fails with the      *)
(* unsupported-argument-type error naming the kind of the first such       *)
(* argument (typeof, or the Object.prototype.toString tag of an object),   *)
(* before checkExists: no statement is issued, and the ledger and the data *)
(* store are unchanged.                                                    *)
C21_UnmappedKindFailsAtOnce ==
    [][\A t \in Tasks :
        /\ AboutToExtract(t) /\ task'[t] # task[t]
        /\ Len(task[t].args) = Len(task[t].fn.params)
        /\ \E i \in 1..Len(task[t].args) : OutsideMappedKinds(task[t].args[i])
        => \E i \in 1..Len(task[t].args) :
              /\ OutsideMappedKinds(task[t].args[i])
              /\ \A j \in 1..(i - 1) : ~OutsideMappedKinds(task[t].args[j])
              /\ FailsUnsupported(t, ObservedKind(task[t].args[i]))]_vars

\* C21 witness: on an engine that has the function on record, a run whose
\* second argument is null has failed with the error naming "[object Null]".
C21_Witness ==
    \E t \in Tasks :
        /\ RunFailed(t) /\ Len(task[t].args) = 2 /\ Len(task[t].fn.params) = 2
        /\ task[t].args[1] = IntV(1)
        /\ task[t].args[2] = ObjectV("[object Null]")
        /\ task[t].out = ErrOutWith("Unsupported argument type", "[object Null]")
        /\ task[t].log = <<>> /\ task[t].decision = ""
        /\ ledger[task[t].eng].table[task[t].fn.name].present


---------------------------------------------------------------------------
\* Call t is a run of a function declared without parameters that has
\* entered checkExists.
EnteredWithoutParams(t) ==
    /\ task[t].kind = "run" /\ task[t].decision # ""
    /\ Len(task[t].fn.params) = 0

(* C22: for a function declared with zero parameters the signature that    *)
(* checkExists works with, records in memory and persists in the metadata  *)
(* row is the empty string, never null; the create-or-replace statement    *)
(* and the INSERT carry the empty signature and the invocation carries no  *)
(* argument.  No ledger entry and no metadata row ever holds null.  (A     *)
(* record that is already verified is not looked at, so its signature is   *)
(* the one of the call that verified it.)                                  *)
C22_NoParamsEmptySignature ==
    /\ \A t \in Tasks :
          EnteredWithoutParams(t)
          => /\ task[t].funcArgs = EmptySig
             /\ task[t].pc \in {"ddl", "insert"} => Pending(t).sig = EmptySig
             /\ task[t].pc = "invoke" => Pending(t).args = <<>>
             /\ CheckExistsReturned(t) /\ task[t].decision # "skip"
                  => /\ ledger[task[t].eng].table[task[t].fn.name].present
                     /\ ledger[task[t].eng].table[task[t].fn.name].args = EmptySig
             /\ Committed(t)
                  => MetaRowIs(escapeIdentifier(dbSchema[task[t].eng]), task[t].fn.name,
                               EmptySig, Md5(task[t].fn.body))
    /\ \A e \in Engines, n \in LedgerKeys : ledger[e].table[n].args # NullSig
    /\ \A m \in db.meta : m.args # NullSig

\* C22 witness: a function without parameters was deployed and invoked;
\* the routine has no parameters and its metadata row has the empty
\* signature.
C22_Witness ==
    \E t \in Tasks :
        /\ RunOk(t) /\ EnteredWithoutParams(t)
        /\ Issued(t) = <<"BEGIN", "CREATE_FUNCTION", "INSERT_META", "COMMIT", "INVOKE">>
        /\ RoutineIs(dbSchema[task[t].eng], task[t].fn.name, EmptySig, task[t].fn.body)
        /\ MetaRowIs(escapeIdentifier(dbSchema[task[t].eng]), task[t].fn.name,
                     EmptySig, Md5(task[t].fn.body))
        /\ ledger[task[t].eng].table[task[t].fn.name] = Rec(EmptySig, Md5(task[t].fn.body), TRUE)


---------------------------------------------------------------------------
\* The type the mapping is stated to give argument value arg.
StatedType(arg) ==
    CASE arg.type = "number" /\ arg.isInt /\ arg.over = 0 -> "int4"
      [] arg.type = "number" /\ arg.isInt /\ arg.over # 0 -> "int8"
      [] arg.type = "number" /\ ~arg.isInt -> "float4"
      [] arg.type = "boolean" -> "bool"
      [] arg.type = "string" -> "text"
      [] arg.type = "object" /\ arg.tag = "[object Date]" -> "date"
      [] OTHER -> Undefined

(* C23: the type mapper gives every argument one type: an integer in       *)
(* [-2^31, 2^31 - 1], both bounds included, int4; an integer outside that  *)
(* range int8; a non-integral number float4; a boolean bool; a string     *)
(* text; a Date date.  The signature a run hands to checkExists lists one  *)
(* pair of parameter name and type per argument, in declaration order.     *)
C23_TypeMapping ==
    /\ \A v \in TypedValues :
          StatedType(v) # Undefined => getPostgresType(v) = StatedType(v)
    /\ \A t \in Tasks :
          /\ task[t].kind = "run" /\ task[t].decision # ""
          /\ Len(task[t].fn.params) > 0
          /\ \A i \in 1..Len(task[t].args) : StatedType(task[t].args[i]) # Undefined
          => /\ Len(task[t].funcArgs) = Len(task[t].fn.params)
             /\ \A i \in 1..Len(task[t].fn.params) :
                   task[t].funcArgs[i]
                     = SigItem(task[t].fn.params[i], StatedType(task[t].args[i]))

\* C23 witness: a run with the largest 32-bit integer has deployed the
\* function with an int4 parameter, and the value lies on the bound.
C23_Witness ==
    \E t \in Tasks :
        /\ RunOk(t) /\ task[t].args = <<IntV(MAX_INT)>>
        /\ ~Greater(task[t].args[1], MAX_INT) /\ ~Less(task[t].args[1], MAX_INT)
        /\ task[t].funcArgs = <<SigItem("a", "int4")>>
        /\ IssuedAny(t, {"CREATE_FUNCTION"})
        /\ RoutineIs(dbSchema[task[t].eng], task[t].fn.name, task[t].funcArgs,
                     task[t].fn.body)


---------------------------------------------------------------------------
\* The positions of the invocation statement among the statements call t
\* has had executed, and the number of times the call has issued it.
InvokePositions(t) == {i \in 1..Len(task[t].log) : task[t].log[i].kind = "INVOKE"}
InvokeCount(t) ==
    Cardinality(InvokePositions(t)) + (IF task[t].pc = "invoke" THEN 1 ELSE 0)

\* The statements of call t in front of its invocation.
BeforeInvoke(t) ==
    IF InvokePositions(t) = {} THEN task[t].log
    ELSE SubSeq(task[t].log, 1, (CHOOSE i \in InvokePositions(t) : TRUE) - 1)

\* checkExists of call t has returned without throwing: it had nothing to
\* do, or every statement of its deployment through COMMIT was accepted.
CheckSucceeded(t) ==
    /\ \A i \in 1..Len(BeforeInvoke(t)) : BeforeInvoke(t)[i].ok
    /\ LET kinds == [i \in 1..Len(BeforeInvoke(t)) |-> BeforeInvoke(t)[i].kind]
       IN  \/ task[t].decision \in {"skip", "exists"} /\ kinds = <<>>
           \/ /\ task[t].decision = "deploy"
              /\ kinds = <<"BEGIN", "CREATE_FUNCTION", "INSERT_META", "COMMIT">>
           \/ /\ task[t].decision = "redeploy"
              /\ kinds = <<"BEGIN", "CREATE_FUNCTION", "DELETE_META", "INSERT_META",
                           "COMMIT">>

(* C24: in every run the invocation statement is issued at most once and   *)
(* only after checkExists has returned successfully; when checkExists      *)
(* throws (a statement of the deployment is rejected, or the mode refuses) *)
(* no invocation is issued; and when the invocation is rejected the run    *)
(* ends with that error, the invocation being its last statement.          *)
C24_InvocationOnceAfterCheck ==
    \A t \in Tasks :
        task[t].kind = "run"
        => /\ InvokeCount(t) <= 1
           /\ InvokeCount(t) = 1 => CheckSucceeded(t)
           /\ \/ task[t].decision = "throw"
              \/ \E i \in 1..Len(task[t].log) :
                    ~task[t].log[i].ok /\ task[t].log[i].kind # "INVOKE"
              => InvokeCount(t) = 0 /\ RunFailed(t)
           /\ \A i \in InvokePositions(t) :
                 ~task[t].log[i].ok
                 => /\ i = Len(task[t].log)
                    /\ RunFailed(t) /\ task[t].out.err # ""

\* C24 witness: a run has deployed the function, its invocation was then
\* rejected, and the run has ended with the error.
C24_Witness ==
    \E t \in Tasks :
        /\ RunFailed(t) /\ Committed(t)
        /\ Issued(t) = <<"BEGIN", "CREATE_FUNCTION", "INSERT_META", "COMMIT", "INVOKE">>
        /\ ~task[t].log[5].ok
        /\ InvokeCount(t) = 1


---------------------------------------------------------------------------
\* The ledger entry of the function of call t.
RecordOf(t) == ledger[task[t].eng].table[task[t].fn.name]

\* A statement that checkExists of call t issued was rejected.
CheckFailed(t) ==
    /\ task[t].kind = "run"
    /\ \E i \in 1..Len(task[t].log) :
          ~task[t].log[i].ok /\ task[t].log[i].kind \in DeployStmts

(* C25: an entry of the ledger changes, and is marked verified, only in a  *)
(* step of a run of that function on that engine which either finds the    *)
(* entry matching (only the flag changes) or has COMMIT accepted as the     *)
(* last of the statements of its deployment, all accepted; the entry is     *)
(* then the new record with the flag.  When a statement issued by           *)
(* checkExists is rejected, the entry of the function is what the call      *)
(* found when it entered: same signature, fingerprint and flag.             *)
C25_VerifiedLastRecordKeptOnFailure ==
    /\ [][\A e \in Engines, n \in FuncNames :
            /\ ledger'[e].table[n] # ledger[e].table[n]
            /\ ledger'[e].table[n].checked
            => \E t \in Tasks :
                  /\ task[t].kind = "run" /\ task[t].eng = e /\ task[t].fn.name = n
                  /\ \/ /\ task[t].pc = "connect" /\ task'[t].decision = "exists"
                        /\ task'[t].log = <<>>
                        /\ ledger'[e].table[n] = [ledger[e].table[n] EXCEPT !.checked = TRUE]
                     \/ /\ task[t].pc = "commit" /\ task'[t].pc = "invoke"
                        /\ \A i \in 1..Len(task'[t].log) : task'[t].log[i].ok
                        /\ task'[t].log[Len(task'[t].log)].kind = "COMMIT"
                        /\ \A k \in DeployStmts \ {"DELETE_META"} :
                              \E i \in 1..Len(task'[t].log) : task'[t].log[i].kind = k
                        /\ ledger'[e].table[n]
                             = Rec(task[t].funcArgs, Md5(task[t].fn.body), TRUE)]_vars
    /\ [](\A t \in Tasks : CheckFailed(t) => RunFailed(t) /\ RecordOf(t) = task[t].entry)

\* C25 witness: the COMMIT of a redeployment was rejected; the entry is the
\* one found, unverified and with the old fingerprint.
C25_Witness ==
    \E t \in Tasks :
        /\ CheckFailed(t) /\ task[t].decision = "redeploy"
        /\ Issued(t) = <<"BEGIN", "CREATE_FUNCTION", "DELETE_META", "INSERT_META", "COMMIT">>
        /\ RecordOf(t) = task[t].entry
        /\ RecordOf(t).present /\ ~RecordOf(t).checked
        /\ RecordOf(t).bodyHashCode # Md5(task[t].fn.body)


---------------------------------------------------------------------------
\* The names that have a row in some metadata table of the committed store.
RecordedNames(d) == {<<m.schema, m.name>> : m \in d.meta}

SessionShared ==
    \E t, u \in Tasks :
        /\ t # u /\ InFlight(t) /\ InFlight(u)
        /\ Target(task[t]) = Target(task[u])

\* Every run between its BEGIN and its COMMIT is in the transaction block
\* it has opened: no other call has ended the block on its session.
InOwnTransaction ==
    \A t \in Tasks :
        task[t].kind = "run" /\ task[t].pc \in {"ddl", "delete", "insert", "commit"}
        => conn[Target(task[t])].tx # "idle"

---------------------------------------------------------------------------
\* Engine e is the only writer of its schema: no other engine has been
\* initialized.
SoleWriter(e) == \A x \in Engines \ {e} : ~ledger[x].init

\* The metadata row that entry rec of engine e's ledger for name n mirrors.
RowFor(e, n, rec) ==
    [schema |-> escapeIdentifier(dbSchema[e]), name |-> n,
     args |-> rec.args, body_hashcode |-> rec.bodyHashCode]

\* The in-memory index of engine e agrees with the committed metadata
\* table: a name has an entry exactly when it has a row, and then it has
\* one row, with the args and the fingerprint of the entry.
Agreement(e) ==
    \A n \in FuncNames :
        IF ledger[e].table[n].present
        THEN PersistedRows(e, n) = {RowFor(e, n, ledger[e].table[n])}
        ELSE PersistedRows(e, n) = {}

\* The metadata table of engine e holds at most one row for a name.
SingleRows(e) == \A n \in FuncNames : Cardinality(PersistedRows(e, n)) <= 1

(* C27: for an engine that is the only writer of its schema, the in-memory *)
(* index agrees with the metadata table (same names, and for each name the *)
(* args and the fingerprint of its row) when an init has completed         *)
(* successfully on a table with one row per name, and every step of a run, *)
(* accepted or rejected, keeps the agreement; so it holds after every      *)
(* completed run, successful or failed, that no failed call preceded.      *)
C27_IndexAgreesWithTable ==
    /\ [](\A t \in Tasks :
            /\ task[t].kind = "init" /\ task[t].pc = "done" /\ task[t].out.status = "ok"
            /\ SoleWriter(task[t].eng) /\ SingleRows(task[t].eng)
            => Agreement(task[t].eng))
    /\ [][\A e \in Engines :
            /\ SoleWriter(e) /\ Agreement(e)
            /\ \A t \in Tasks : task[t].kind # "init"
            => Agreement(e)']_vars
    /\ [](\A t \in Tasks :
            RunDone(t) /\ ~task[t].failed /\ SoleWriter(task[t].eng)
            => Agreement(task[t].eng))

\* C27 witness: a redeployment with a changed signature was rejected at its
\* INSERT after the DELETE had been accepted; the call has completed with
\* the error, and the index still holds the entry of the one persisted row.
C27_Witness ==
    \E t \in Tasks :
        /\ RunFailed(t) /\ ~task[t].failed /\ SoleWriter(task[t].eng)
        /\ task[t].decision = "redeploy" /\ task[t].entry.args # task[t].funcArgs
        /\ Issued(t) = <<"BEGIN", "CREATE_FUNCTION", "DELETE_META", "INSERT_META">>
        /\ task[t].log[3].ok /\ ~task[t].log[4].ok
        /\ RecordOf(t).present /\ Agreement(task[t].eng)


---------------------------------------------------------------------------
\* The committed store already holds the schema and the metadata table of
\* engine e.
HoldsSchemaAndTable(e) ==
    /\ escapeIdentifier(dbSchema[e]) \in db.schemas
    /\ escapeIdentifier(dbSchema[e]) \in db.tables

\* This step is taken by call t.
StepOf(t) == task'[t] # task[t]

(* C28: init is idempotent on the store.  On a store that already holds    *)
(* the schema and the metadata table, with whatever rows and routines, no  *)
(* step of an init changes the committed store: schemas, tables, routines  *)
(* and metadata rows are after the step what they were before.  When the   *)
(* init completes, the in-memory index holds an entry for every function   *)
(* name that has a row in the metadata table.                              *)
C28_InitIdempotentOnStore ==
    /\ [][\A t \in Tasks :
            task[t].kind = "init" /\ StepOf(t) /\ HoldsSchemaAndTable(task[t].eng)
            => db' = db]_vars
    /\ [][\A t \in Tasks :
            /\ task[t].kind = "init" /\ task[t].pc # "done"
            /\ task'[t].pc = "done" /\ task'[t].out.status = "ok"
            => \A n \in FuncNames :
                  PersistedRows(task[t].eng, n)' # {}
                  => ledger'[task[t].eng].table[n].present]_vars

\* C28 witness: an init on the store an earlier process left has completed
\* with its three statements accepted; the store is the one it found, and
\* the index holds the unverified entry of the persisted row.
C28_Witness ==
    \E t \in Tasks :
        /\ task[t].kind = "init" /\ task[t].pc = "done" /\ task[t].out.status = "ok"
        /\ Issued(t) = <<"CREATE_SCHEMA", "CREATE_TABLE", "SELECT_META">>
        /\ \A i \in 1..3 : task[t].log[i].ok
        /\ db = StoreWithDeployment
        /\ \A m \in db.meta :
              ledger[task[t].eng].table[m.name] = LoadedRecord(m)


---------------------------------------------------------------------------
(* C29: two engine instances keep separate ledgers.  A step of a call made *)
(* through one instance (a deploy, a redeploy, a verification, an init)    *)
(* leaves the in-memory index and the verified flags of every other        *)
(* instance as they were, also when both work on the same schema of the    *)
(* same store.                                                             *)
C29_SeparateLedgers ==
    [][\A t \in Tasks :
         StepOf(t) /\ task[t].kind \in {"run", "init"}
         => \A e \in Engines \ {task[t].eng} : ledger'[e] = ledger[e]]_vars

\* C29 witness: a run through one instance has redeployed a function with a
\* new body and marked it verified, while the other instance, initialized
\* on the same schema, still holds its entry with the old fingerprint.
C29_Witness ==
    \E t \in Tasks, e \in Engines :
        /\ task[t].kind = "run" /\ task[t].decision = "redeploy" /\ Committed(t)
        /\ e # task[t].eng /\ ledger[e].init /\ dbSchema[e] = dbSchema[task[t].eng]
        /\ RecordOf(t) = Rec(task[t].funcArgs, Md5(task[t].fn.body), TRUE)
        /\ ledger[e].table[task[t].fn.name].present
        /\ ledger[e].table[task[t].fn.name].bodyHashCode # Md5(task[t].fn.body)


---------------------------------------------------------------------------
\* Call t redeploys a function under a signature (arity or type) other than
\* the recorded one, and the row of the recorded signature was in the
\* metadata table when checkExists was entered.
RedeploysOtherSignature(t) ==
    /\ task[t].kind = "run" /\ task[t].decision = "redeploy"
    /\ task[t].entry.present /\ task[t].entry.args # task[t].funcArgs
    /\ RowOf(t, task[t].entry) \in task[t].pre.meta

\* This step is the accepted COMMIT of call t's #createFunction.
CommitStep(t) == task[t].pc = "commit" /\ task'[t].pc = "invoke"

\* The metadata row of the deployment call t makes.
NewRow(t) == RowOf(t, Rec(task[t].funcArgs, Md5(task[t].fn.body), TRUE))

(* C30 as stated: deploying a function name under another signature leaves *)
(* the earlier record in place and adds a distinct one: when the           *)
(* deployment commits, the metadata table holds the row of the earlier     *)
(* signature and the row of the new one.  Refuted: the redeployment        *)
(* deletes the row of the recorded signature.                              *)
C30_BothRecordsCoexist ==
    [][\A t \in Tasks :
         RedeploysOtherSignature(t) /\ CommitStep(t)
         => /\ RowOf(t, task[t].entry) \in db'.meta
            /\ NewRow(t) \in db'.meta]_vars

(* C30 amended: the records an engine keeps are keyed by function name.    *)
(* When a deployment under another signature commits, the row of the       *)
(* recorded signature is gone, the row of the new signature is there, and  *)
(* the index holds the one entry of the name, with the new signature.      *)
(* What coexists are the routines: the one stored under the earlier        *)
(* parameter types is still there beside the new one.                      *)
C30_RecordReplacedOverloadsStay ==
    [][\A t \in Tasks :
         RedeploysOtherSignature(t) /\ CommitStep(t)
         => /\ RowOf(t, task[t].entry) \notin db'.meta
            /\ NewRow(t) \in db'.meta
            /\ ledger'[task[t].eng].table[task[t].fn.name]
                 = Rec(task[t].funcArgs, Md5(task[t].fn.body), TRUE)
            /\ \A r \in task[t].pre.routines :
                  SigTypes(r.sig) # SigTypes(task[t].funcArgs) => r \in db'.routines
            /\ \E r \in db'.routines :
                  /\ r.name = task[t].fn.name /\ r.sig = task[t].funcArgs
                  /\ r.body = task[t].fn.body]_vars

\* C30 witness: a function deployed with one int4 parameter has been
\* deployed again with a parameter of another type; the table holds the one
\* row of the new signature, the store both routines.
C30_Witness ==
    \E t \in Tasks :
        /\ RedeploysOtherSignature(t) /\ Committed(t)
        /\ Len(task[t].entry.args) = Len(task[t].funcArgs)
        /\ MetaRows(escapeIdentifier(dbSchema[task[t].eng]), task[t].fn.name) = {NewRow(t)}
        /\ \E r, q \in db.routines :
              /\ r.name = task[t].fn.name /\ q.name = task[t].fn.name
              /\ r.sig = task[t].entry.args /\ q.sig = task[t].funcArgs


---------------------------------------------------------------------------
\* No call is in flight: every call that was started has completed.
AllCompleted == \A t \in Tasks : Quiet(t)

(* C31: under concurrent runs on one engine that redeploy the same         *)
(* function name no in-memory update is lost: once all calls have          *)
(* completed, no statement having been rejected for an outside reason, the *)
(* in-memory record of the name is a row of the committed metadata table   *)
(* (the one last committed for the name).  Refuted by the code for runs    *)
(* that share a Client: a COMMIT that ends a transaction another run's     *)
(* statement has aborted is accepted, and the record is written although   *)
(* nothing was committed.                                                  *)
C31_IndexEqualsLastCommittedRow ==
    \A e \in Engines, n \in FuncNames :
        /\ AllCompleted /\ faults = 0
        /\ ledger[e].init /\ ledger[e].table[n].present
        => RowFor(e, n, ledger[e].table[n]) \in db.meta

\* What the code does: two runs on one Client have redeployed the same
\* function under the same new signature; the INSERT of one was rejected as
\* a duplicate, the COMMIT of the other was accepted, and the index holds
\* its record while the table still holds the row both runs found.
C31_RecordOfRolledBackDeployment ==
    \E t, u \in Tasks :
        /\ t # u /\ AllCompleted /\ faults = 0
        /\ RunDone(t) /\ RunDone(u) /\ Target(task[t]) = Target(task[u])
        /\ task[u].out.err = "duplicate key value"
        /\ Committed(t) /\ RecordOf(t) = Rec(task[t].funcArgs, Md5(task[t].fn.body), TRUE)
        /\ NewRow(t) \notin db.meta
        /\ db.meta = task[t].pre.meta /\ db.meta # {}


---------------------------------------------------------------------------
\* A BEGIN that call t issued was accepted.
BeganTransaction(t) ==
    \E i \in 1..Len(task[t].log) : task[t].log[i].kind = "BEGIN" /\ task[t].log[i].ok

(* C32: every BEGIN the engine issues on a connection is followed, before  *)
(* run returns or throws, by a COMMIT or a ROLLBACK on that connection:    *)
(* when a run that opened a transaction has completed, successfully or     *)
(* with an error, its connection is outside any transaction block.         *)
(* Refuted by the code: a rejected statement of #createFunction throws out *)
(* of run and no ROLLBACK is issued.                                       *)
C32_NoTransactionLeftOpen ==
    \A t \in Tasks :
        RunDone(t) /\ BeganTransaction(t) => conn[Target(task[t])].tx = "idle"

\* What the code does: the INSERT of a deployment was rejected, run has
\* thrown, and the connection is still inside the failed transaction block.
C32_LeftInFailedTransaction ==
    \E t \in Tasks :
        /\ RunFailed(t) /\ BeganTransaction(t)
        /\ Issued(t) = <<"BEGIN", "CREATE_FUNCTION", "INSERT_META">>
        /\ ~task[t].log[3].ok
        /\ conn[Target(task[t])].tx = "aborted"


---------------------------------------------------------------------------
\* Run t is between the BEGIN and the COMMIT of its #createFunction: BEGIN
\* was accepted and COMMIT has not been executed.
InBlock(t) ==
    task[t].kind = "run" /\ task[t].pc \in {"ddl", "delete", "insert", "commit"}

\* In this step the data store executes a statement of run u's
\* #createFunction.
ExecutesDeployStmt(u) ==
    /\ task[u].kind = "run"
    /\ task[u].pc \in {"begin", "ddl", "delete", "insert", "commit"}
    /\ Len(task'[u].log) = Len(task[u].log) + 1

(* C33: when two concurrent runs on one engine share a single Client and   *)
(* both deploy, no statement of one deployment is executed between the     *)
(* BEGIN and the COMMIT of the other.  Refuted by the code: the runs send  *)
(* their statements through the one session as their awaits resolve, and   *)
(* the COMMIT of one makes the statements the other has issued so far      *)
(* permanent.                                                              *)
C33_DeploymentsNotInterleaved ==
    [][\A t, u \in Tasks :
         /\ t # u /\ InBlock(t) /\ task[t].client = "Client"
         /\ task[u].eng = task[t].eng /\ task[u].client = "Client"
         => ~ExecutesDeployStmt(u)]_vars

\* What the code does: on the shared Client the COMMIT of run t was
\* accepted while run u had issued its DDL and its DELETE but not its
\* INSERT; the committed store has the routine of u and no metadata row of
\* the function, with no statement rejected.
C33_PartialDeploymentCommitted ==
    \E t, u \in Tasks :
        /\ t # u /\ faults = 0 /\ Target(task[t]) = Target(task[u])
        /\ task[t].kind = "run" /\ Committed(t)
        /\ task[u].kind = "run" /\ task[u].pc = "insert" /\ task[u].client = "Client"
        /\ RowOf(u, task[u].entry) \in task[u].pre.meta
        /\ MetaRows(escapeIdentifier(dbSchema[task[u].eng]), task[u].fn.name) = {}
        /\ \E r \in db.routines :
              /\ r.name = task[u].fn.name /\ r.sig = task[u].funcArgs
              /\ r.body = task[u].fn.body


---------------------------------------------------------------------------
\* Metadata row m of store d has its routine: a routine of the row's schema
\* with the row's name and signature whose body has the row's fingerprint.
HasRoutine(d, m) ==
    \E r \in d.routines :
        /\ r.schema = m.schema /\ r.name = m.name /\ r.sig = m.args
        /\ Md5(r.body) = m.body_hashcode

(* C34: in every committed state of the data store reached through engine  *)
(* operations, each metadata row (name, args, body_hashcode) has a routine *)
(* name(args) in the same schema whose body has that fingerprint.  Refuted *)
(* by the code for an engine with a schema of its own: the row is written  *)
(* to the table of that schema, the routine is created without a schema    *)
(* name and lands in public.                                               *)
C34_EveryRowHasItsRoutine == \A m \in db.meta : HasRoutine(db, m)

\* What the code does: a deployment on an engine with its own schema has
\* committed with no statement rejected; the row is in that schema's table
\* and the only routine of the name is in the default schema.
C34_RowWithoutRoutineInSchema ==
    \E t \in Tasks :
        /\ task[t].kind = "run" /\ Committed(t) /\ faults = 0
        /\ dbSchema[task[t].eng] # DefaultSchema
        /\ NewRow(t) \in db.meta /\ ~HasRoutine(db, NewRow(t))
        /\ RoutineIs(DefaultSchema, task[t].fn.name, task[t].funcArgs, task[t].fn.body)


---------------------------------------------------------------------------
\* Signatures a and b differ in arity or in the type of a parameter.
DiffersInTypes(a, b) ==
    \/ Len(a) # Len(b)
    \/ \E i \in 1..Len(a) : TypeName(a[i].t) # TypeName(b[i].t)

\* The routines the store d holds under name nm in schema sch.
RoutinesOf(d, sch, nm) == {r \in d.routines : r.schema = sch /\ r.name = nm}

\* The routine stored under the signature call t found recorded.
OldRoutines(t) ==
    {r \in RoutinesOf(task[t].pre, DefaultSchema, task[t].fn.name) :
        r.sig = task[t].entry.args}

(* C35 as stated: after a redeploy that changes the argument signature of  *)
(* a function the data store holds exactly one routine of that name, the   *)
(* one with the new signature.  Refuted: the create-or-replace DDL with    *)
(* other parameter types adds an overload, and nothing drops the old one.  *)
C35_OnlyNewRoutineRemains ==
    [][\A t \in Tasks :
         RedeploysOtherSignature(t) /\ CommitStep(t)
         => \E r \in db'.routines :
               /\ r.sig = task[t].funcArgs
               /\ RoutinesOf(db', DefaultSchema, task[t].fn.name) = {r}]_vars

(* C35 amended: after a redeploy that changes the arity or a parameter     *)
(* type of a function, the data store holds the routine with the new       *)
(* signature and body, and the routine stored under the old signature is   *)
(* still there with the body it had: two routines of the name.             *)
C35_OldOverloadStays ==
    [][\A t \in Tasks :
         /\ RedeploysOtherSignature(t) /\ CommitStep(t)
         /\ DiffersInTypes(task[t].entry.args, task[t].funcArgs)
         => /\ OldRoutines(t) \subseteq db'.routines
            /\ \E r \in RoutinesOf(db', DefaultSchema, task[t].fn.name) :
                  r.sig = task[t].funcArgs /\ r.body = task[t].fn.body
            /\ OldRoutines(t) # {}
                  => Cardinality(RoutinesOf(db', DefaultSchema, task[t].fn.name)) >= 2]_vars

\* C35 witness: f, deployed with an int4 parameter, has been redeployed
\* with a text parameter and the deployment has committed; the store holds
\* f(a int4) with the old body and f(a text) with the new one.
C35_Witness ==
    \E t \in Tasks :
        /\ RedeploysOtherSignature(t) /\ Committed(t)
        /\ DiffersInTypes(task[t].entry.args, task[t].funcArgs)
        /\ task[t].entry.bodyHashCode # Md5(task[t].fn.body)
        /\ \E r, q \in RoutinesOf(db, DefaultSchema, task[t].fn.name) :
              /\ r.sig = task[t].entry.args /\ Md5(r.body) = task[t].entry.bodyHashCode
              /\ q.sig = task[t].funcArgs /\ q.body = task[t].fn.body


---------------------------------------------------------------------------
\* Call t was given a single Client.
GivenClient(t) == task[t].kind \in {"run", "init"} /\ task[t].client = "Client"

(* C36: a call given a single Client uses that connection directly and     *)
(* never releases or replaces it.  The connection of the call, once        *)
(* obtained, is the Client itself; every statement of the call is executed *)
(* on it; the call checks nothing out and releases nothing, whether it     *)
(* returns or throws; no step of the call changes the set of checked-out   *)
(* pool connections; and the next call given the Client obtains the same   *)
(* connection.                                                             *)
C36_ClientUsedAsGiven ==
    /\ [](\A t \in Tasks :
            GivenClient(t)
            => /\ task[t].conn \in {"", ClientConn}
               /\ task[t].pc \notin {"connect"} => task[t].conn = ClientConn
               /\ \A i \in 1..Len(task[t].log) : task[t].log[i].conn = ClientConn
               /\ task[t].acquired = 0 /\ task[t].released = 0)
    /\ [][\A t \in Tasks :
            GivenClient(t) /\ StepOf(t) /\ task'[t].kind = task[t].kind
            => /\ poolOut' = poolOut
               /\ task'[t].client = "Client"
               /\ task'[t].conn = ClientConn]_vars

\* C36 witness: a run given the Client has thrown after a rejected
\* statement of its deployment, an earlier call of the same caller having
\* failed as well; it used the Client for every statement and released
\* nothing.
C36_Witness ==
    \E t \in Tasks :
        /\ GivenClient(t) /\ RunFailed(t) /\ task[t].failed
        /\ task[t].log # <<>> /\ ~task[t].log[Len(task[t].log)].ok
        /\ \A i \in 1..Len(task[t].log) : task[t].log[i].conn = ClientConn
        /\ task[t].conn = ClientConn /\ task[t].released = 0

=============================================================================
